---- MODULE Spec2Model ----
(***************************************************************************)
(* Nexel: a dual-mode TCP proxy (SOCKS4 / SOCKS5 / HTTP CONNECT).          *)
(*                                                                         *)
(* Bytes are integers 0..255 and byte strings are sequences of them.       *)
(* Wide integers (u32, u128) are kept as big-endian sequences of 16-bit    *)
(* digits, so that no value leaves the range of TLC's integers.            *)
(***************************************************************************)
EXTENDS Integers, Sequences, FiniteSets, TLC

(***************************************************************************)
(* Generic helpers on sequences.                                           *)
(***************************************************************************)
Min(a, b) == IF a < b THEN a ELSE b

Take(s, n) == SubSeq(s, 1, Min(n, Len(s)))

Drop(s, n) == SubSeq(s, Min(n, Len(s)) + 1, Len(s))

IsPrefix(p, s) == Len(p) <= Len(s) /\ SubSeq(s, 1, Len(p)) = p

RECURSIVE Flatten(_)
Flatten(ss) == IF ss = <<>> THEN <<>> ELSE Head(ss) \o Flatten(Tail(ss))

(***************************************************************************)
(* error.rs: the error sum type.  Every error is a record of one shape:    *)
(* kind, the u8 payload (0 when the variant has none), the message or I/O  *)
(* kind ("" when the variant has none).                                    *)
(***************************************************************************)
Error(kind, arg, msg) == [kind |-> kind, arg |-> arg, msg |-> msg]

NoErr == Error("Ok", 0, "")

Incomplete == Error("Incomplete", 0, "")

VnUnsupported(b) == Error("VnUnsupported", b, "")

UnknownCmd(b) == Error("UnknownCmd", b, "")

AddrTypeUnsupported(b) == Error("AddrTypeUnsupported", b, "")

NotImplemented == Error("NotImplemented", 0, "")

IoErr(kind) == Error("IoErr", 0, kind)

Other(msg) == Error("Other", 0, msg)

(***************************************************************************)
(* tokio::io::BufWriter<Vec<u8>>: bytes wait in buf (capacity cap) and     *)
(* move to inner when a write would overflow buf; a write of at least cap  *)
(* bytes goes straight to inner.                                           *)
(***************************************************************************)
BufCapacity == 64

NewBufWriter == [inner |-> <<>>, buf |-> <<>>]

BufFlush(w) == [inner |-> w.inner \o w.buf, buf |-> <<>>]

BufWrite(w, data) ==
    LET w1 == IF Len(w.buf) + Len(data) > BufCapacity THEN BufFlush(w) ELSE w
    IN  IF Len(data) >= BufCapacity
        THEN [w1 EXCEPT !.inner = @ \o data]
        ELSE [w1 EXCEPT !.buf = @ \o data]

(***************************************************************************)
(* Big-endian conversions.  A u16 is an integer; a u32 is two u16 digits,  *)
(* a u128 eight, most significant first.                                   *)
(***************************************************************************)
U16FromBytes(b1, b2) == b1 * 256 + b2

U16ToBytes(n) == << n \div 256, n % 256 >>

WideFromBytes(bs) ==
    [i \in 1..(Len(bs) \div 2) |-> U16FromBytes(bs[2 * i - 1], bs[2 * i])]

WideToBytes(ds) == Flatten([i \in 1..Len(ds) |-> U16ToBytes(ds[i])])

(***************************************************************************)
(* protocol.rs BufReader over a Cursor: r.src is the slice the cursor      *)
(* walks, r.pos the cursor position, r.w the BufWriter that records every  *)
(* byte handed out.  Each accessor returns [err, val, r].                  *)
(***************************************************************************)
with_capacity(src) == [src |-> src, pos |-> 0, w |-> NewBufWriter]

remaining(r) == Len(r.src) - r.pos

Got(v, r) == [err |-> NoErr, val |-> v, r |-> r]

Fail(e, r) == [err |-> e, val |-> <<>>, r |-> r]

IsOk(x) == x.err = NoErr

\* The ? operator: go on with the value, or return the error at once.
Try(x, K(_)) == IF IsOk(x) THEN K(x) ELSE Fail(x.err, x.r)

\* A let binding whose value is computed once.
Bind(x, K(_)) == K(x)

into_inner(r) == BufFlush(r.w).inner

get_u8_zero(r) ==
    IF remaining(r) = 0
    THEN Got(0, r)
    ELSE Got(r.src[r.pos + 1],
             [r EXCEPT !.pos = @ + 1, !.w = BufWrite(@, <<r.src[r.pos + 1]>>)])

get_u8(r) ==
    IF remaining(r) = 0
    THEN Fail(Incomplete, r)
    ELSE LET ret == r.src[r.pos + 1]
         IN  Got(ret, [r EXCEPT !.pos = @ + 1, !.w = BufWrite(@, <<ret>>)])

\* get_u16 taking the two bytes in little-endian order
get_u16_le(r) ==
    IF remaining(r) < 2
    THEN Fail(Incomplete, r)
    ELSE Got(r.src[r.pos + 2] * 256 + r.src[r.pos + 1],
             [r EXCEPT !.pos = @ + 2,
                       !.w = BufWrite(@, << r.src[r.pos + 1], r.src[r.pos + 2] >>)])

get_u16(r) ==
    IF remaining(r) < 2
    THEN Fail(Incomplete, r)
    ELSE LET ret == U16FromBytes(r.src[r.pos + 1], r.src[r.pos + 2])
         IN  Got(ret, [r EXCEPT !.pos = @ + 2, !.w = BufWrite(@, U16ToBytes(ret))])

get_u32(r) ==
    IF remaining(r) < 4
    THEN Fail(Incomplete, r)
    ELSE LET ret == WideFromBytes(SubSeq(r.src, r.pos + 1, r.pos + 4))
         IN  Got(ret, [r EXCEPT !.pos = @ + 4, !.w = BufWrite(@, WideToBytes(ret))])

U128Needed == 128

get_u128(r) ==
    IF remaining(r) < U128Needed
    THEN Fail(Incomplete, r)
    ELSE LET ret == WideFromBytes(SubSeq(r.src, r.pos + 1, r.pos + 16))
         IN  Got(ret, [r EXCEPT !.pos = @ + 16, !.w = BufWrite(@, WideToBytes(ret))])

\* The while loop of get_n_bytes: n calls of get_u8 in order, each pushed to
\* result.  The n iterations are run as two consecutive halves.
RECURSIVE get_n_loop(_, _, _)
get_n_loop(r, n, result) ==
    IF n = 0
    THEN Got(result, r)
    ELSE IF n = 1
    THEN Try(get_u8(r), LAMBDA g : Got(Append(result, g.val), g.r))
    ELSE Try(get_n_loop(r, n \div 2, result),
             LAMBDA h : get_n_loop(h.r, n - n \div 2, h.val))

\* get_n_bytes taking every byte the cursor has left, whatever n is
get_n_bytes_all(r, n) ==
    IF remaining(r) < n THEN Fail(Incomplete, r)
    ELSE Got(SubSeq(r.src, r.pos + 1, Len(r.src)), [r EXCEPT !.pos = Len(r.src)])

get_n_bytes(r, n) ==
    IF remaining(r) < n THEN Fail(Incomplete, r) ELSE get_n_loop(r, n, <<>>)

\* Cursor::read_until: the bytes from the cursor up to and including the
\* first c, or up to the end of the slice when there is no c.
read_until(r, c) ==
    LET hits == {i \in (r.pos + 1)..Len(r.src) : r.src[i] = c}
        last == IF hits = {} THEN Len(r.src)
                ELSE CHOOSE i \in hits : \A j \in hits : i <= j
    IN  SubSeq(r.src, r.pos + 1, last)

get_until_unrecorded(r, c) ==
    LET result == read_until(r, c)
    IN  IF Len(result) = 0
        THEN Fail(Incomplete, r)
        ELSE Got(result, [r EXCEPT !.pos = @ + Len(result)])

get_until(r, c) ==
    LET result == read_until(r, c)
    IN  IF Len(result) = 0
        THEN Fail(Incomplete, r)
        ELSE Got(result, [r EXCEPT !.pos = @ + Len(result),
                                   !.w = BufWrite(@, result)])

\* String::from_utf8_lossy on the bytes of a line: ASCII is kept, any other
\* byte becomes U+FFFD.
from_utf8_lossy(bs) == [i \in 1..Len(bs) |-> IF bs[i] < 128 THEN bs[i] ELSE 65533]

get_line(r) ==
    Try(get_until(r, 13), LAMBDA line :
    Try(get_u8(line.r), LAMBDA next :
        IF next.val # 10 THEN Fail(Other("broken line"), next.r)
        ELSE Got(from_utf8_lossy(SubSeq(line.val, 1, Len(line.val) - 1)), next.r)))

(***************************************************************************)
(* protocol.rs: the canonical request.  An Option is a record with a some  *)
(* flag; an IP address carries its family and its 16-bit digits.           *)
(***************************************************************************)
NoneStr == [some |-> FALSE, v |-> <<>>]

SomeStr(s) == [some |-> TRUE, v |-> s]

NoneIp == [some |-> FALSE, fam |-> "", v |-> <<>>]

SomeV4(ds) == [some |-> TRUE, fam |-> "V4", v |-> ds]

SomeV6(ds) == [some |-> TRUE, fam |-> "V6", v |-> ds]

Request(ver, cmd, rsv, dst_domain, dst_addr, dst_port, a_type, raw) ==
    [ver |-> ver, cmd |-> cmd, rsv |-> rsv, dst_domain |-> dst_domain,
     dst_addr |-> dst_addr, dst_port |-> dst_port, a_type |-> a_type, raw |-> raw]

NoRequest == Request("", "", 0, NoneStr, NoneIp, 0, "", <<>>)

\* What parse_req hands back: a ReqFrame (Auth or Req) or an error, and how
\* far the cursor went for it.
FrameAuth(methods, r) ==
    [err |-> NoErr, kind |-> "Auth", methods |-> methods, req |-> NoRequest,
     consumed |-> r.pos]

FrameReq(req, r) ==
    [err |-> NoErr, kind |-> "Req", methods |-> <<>>, req |-> req,
     consumed |-> r.pos]

FrameErr(e) ==
    [err |-> e, kind |-> "Err", methods |-> <<>>, req |-> NoRequest, consumed |-> 0]

ReqCmd_from_u8(n) ==
    CASE n = 1 -> "Connect"
      [] n = 2 -> "Bind"
      [] n = 3 -> "Udp"
      [] OTHER -> "None"

\* The ? operator inside a parser: the error is what the parser returns.
TryFrame(x, K(_)) == IF IsOk(x) THEN K(x) ELSE FrameErr(x.err)

parse_auth(r) ==
    TryFrame(get_u8(r), LAMBDA n_methods :
    TryFrame(get_n_bytes(n_methods.r, n_methods.val), LAMBDA methods :
        FrameAuth(methods.val, methods.r)))

parse_req_v4(r) ==
    TryFrame(get_u8(r), LAMBDA n_cmd :
        IF ReqCmd_from_u8(n_cmd.val) = "None" THEN FrameErr(UnknownCmd(4))
        ELSE
    TryFrame(get_u16(n_cmd.r), LAMBDA port :
    TryFrame(get_u32(port.r), LAMBDA ipv4 :
    TryFrame(get_until(ipv4.r, 0), LAMBDA user_id_vec :
        IF user_id_vec.val[Len(user_id_vec.val)] # 0
        THEN FrameErr(Incomplete)
        ELSE FrameReq(Request("V4", ReqCmd_from_u8(n_cmd.val), 0, NoneStr,
                              SomeV4(ipv4.val), port.val, "Ipv4",
                              into_inner(user_id_vec.r)),
                      user_id_vec.r)))))

\* String::from_utf8 on the domain bytes: ASCII is accepted as it is; a byte
\* that is not ASCII is taken as an encoding error.
from_utf8(bs) ==
    IF \A i \in 1..Len(bs) : bs[i] < 128
    THEN [err |-> NoErr, val |-> bs]
    ELSE [err |-> Other("invalid utf-8 sequence"), val |-> <<>>]

\* get_addr with the domain kept beside an address: the name's bytes are
\* returned together with the unspecified IPv4 address
get_addr_both(r) ==
    Try(get_u8(r), LAMBDA t :
        CASE t.val = 1 ->
                Try(get_u32(t.r), LAMBDA ip :
                    Got(<<SomeV4(ip.val), NoneStr, "Ipv4">>, ip.r))
          [] t.val = 3 ->
                Try(get_u8(t.r), LAMBDA a_len :
                Try(get_n_bytes(a_len.r, a_len.val), LAMBDA bs :
                Bind(from_utf8(bs.val), LAMBDA domain :
                    IF ~IsOk(domain) THEN Fail(domain.err, bs.r)
                    ELSE Got(<<SomeV4(<<0, 0>>), SomeStr(domain.val), "Domain">>, bs.r))))
          [] t.val = 4 ->
                Try(get_u128(t.r), LAMBDA ip :
                    Got(<<SomeV6(ip.val), NoneStr, "Ipv6">>, ip.r))
          [] OTHER -> Fail(AddrTypeUnsupported(5), t.r))

\* get_addr gives (dst_addr, dst_domain, a_type) in val.
get_addr(r) ==
    Try(get_u8(r), LAMBDA t :
        CASE t.val = 1 ->
                Try(get_u32(t.r), LAMBDA ip :
                    Got(<<SomeV4(ip.val), NoneStr, "Ipv4">>, ip.r))
          [] t.val = 3 ->
                Try(get_u8(t.r), LAMBDA a_len :
                Try(get_n_bytes(a_len.r, a_len.val), LAMBDA bs :
                Bind(from_utf8(bs.val), LAMBDA domain :
                    IF ~IsOk(domain) THEN Fail(domain.err, bs.r)
                    ELSE Got(<<NoneIp, SomeStr(domain.val), "Domain">>, bs.r))))
          [] t.val = 4 ->
                Try(get_u128(t.r), LAMBDA ip :
                    Got(<<SomeV6(ip.val), NoneStr, "Ipv6">>, ip.r))
          [] OTHER -> Fail(AddrTypeUnsupported(5), t.r))

parse_req_v5(r) ==
    TryFrame(get_u8(r), LAMBDA n_cmd :
        IF ReqCmd_from_u8(n_cmd.val) = "None" THEN FrameErr(UnknownCmd(5))
        ELSE
    TryFrame(get_u8(n_cmd.r), LAMBDA rsv :
    TryFrame(get_addr(rsv.r), LAMBDA addr :
    TryFrame(get_u16(addr.r), LAMBDA dst_port :
        FrameReq(Request("V5", ReqCmd_from_u8(n_cmd.val), rsv.val,
                         addr.val[2], addr.val[1], dst_port.val,
                         addr.val[3], into_inner(dst_port.r)),
                 dst_port.r)))))

(***************************************************************************)
(* Text helpers for the HTTP CONNECT request line.                         *)
(***************************************************************************)
RECURSIVE split(_, _)
\* str::split(c): the pieces between the occurrences of c (n occurrences
\* give n + 1 pieces).
split(s, c) ==
    LET hits == {i \in 1..Len(s) : s[i] = c}
    IN  IF hits = {} THEN << s >>
        ELSE LET i == CHOOSE k \in hits : \A j \in hits : k <= j
             IN  << SubSeq(s, 1, i - 1) >> \o split(SubSeq(s, i + 1, Len(s)), c)

IsDigits(s) == Len(s) > 0 /\ \A i \in 1..Len(s) : s[i] \in 48..57

RECURSIVE DecVal(_)
DecVal(s) == IF s = <<>> THEN 0 ELSE DecVal(SubSeq(s, 1, Len(s) - 1)) * 10 + (s[Len(s)] - 48)

IsHex(s) == Len(s) > 0 /\ \A i \in 1..Len(s) : s[i] \in (48..57) \cup (97..102)

RECURSIVE HexVal(_)
HexVal(s) ==
    IF s = <<>> THEN 0
    ELSE HexVal(SubSeq(s, 1, Len(s) - 1)) * 16
         + (IF s[Len(s)] <= 57 THEN s[Len(s)] - 48 ELSE s[Len(s)] - 87)

to_lowercase(s) == [i \in 1..Len(s) |-> IF s[i] \in 65..90 THEN s[i] + 32 ELSE s[i]]

(***************************************************************************)
(* Url::parse("http://" + token) as far as parse_req_http_connect reads    *)
(* it: host() and port().  The token is host, host:port, [v6] or           *)
(* [v6]:port; the model's tokens hold no '/', '?', '#', '@' or '%'.        *)
(*   - an empty host, a port that is not a decimal u16, or any text but a  *)
(*     port after ']' is a parse error;                                    *)
(*   - a host whose last label is a number is an IPv4 address (four        *)
(*     decimal labels, each at most 255) or a parse error;                 *)
(*   - a bracketed host is an IPv6 address; the forms read here are "::"   *)
(*     and "::h" with h one to four hex digits;                            *)
(*   - any other host is a domain, in lower case.                          *)
(* url_port gives [some, v]; port() is None for the scheme's default 80.   *)
(***************************************************************************)
UrlErr == [ok |-> FALSE, kind |-> "", ip |-> NoneIp, domain |-> <<>>,
           port |-> [some |-> FALSE, v |-> 0]]

\* the port of the token dropped: port() is always None
url_port_dropped(p) ==
    IF p = <<>> \/ (IsDigits(p) /\ Len(p) <= 5 /\ DecVal(p) <= 65535)
    THEN [ok |-> TRUE, some |-> FALSE, v |-> 0]
    ELSE [ok |-> FALSE, some |-> FALSE, v |-> 0]

url_port(p) ==
    IF p = <<>> THEN [ok |-> TRUE, some |-> FALSE, v |-> 0]
    ELSE IF IsDigits(p) /\ Len(p) <= 5 /\ DecVal(p) <= 65535
    THEN [ok |-> TRUE, some |-> DecVal(p) # 80, v |-> DecVal(p)]
    ELSE [ok |-> FALSE, some |-> FALSE, v |-> 0]

url_ipv4(labels) ==
    IF Len(labels) = 4 /\ \A i \in 1..4 : IsDigits(labels[i]) /\ Len(labels[i]) <= 3
                                           /\ DecVal(labels[i]) <= 255
    THEN [ok |-> TRUE,
          v |-> << U16FromBytes(DecVal(labels[1]), DecVal(labels[2])),
                   U16FromBytes(DecVal(labels[3]), DecVal(labels[4])) >>]
    ELSE [ok |-> FALSE, v |-> <<>>]

url_ipv6(inner) ==
    IF inner = <<58, 58>>
    THEN [ok |-> TRUE, v |-> <<0, 0, 0, 0, 0, 0, 0, 0>>]
    ELSE IF Len(inner) \in 3..6 /\ SubSeq(inner, 1, 2) = <<58, 58>>
            /\ IsHex(SubSeq(inner, 3, Len(inner)))
    THEN [ok |-> TRUE, v |-> <<0, 0, 0, 0, 0, 0, 0, HexVal(SubSeq(inner, 3, Len(inner)))>>]
    ELSE [ok |-> FALSE, v |-> <<>>]

url_host(h, port) ==
    IF h = <<>> \/ ~port.ok THEN UrlErr
    ELSE Bind(split(h, 46), LAMBDA labels :
        IF IsDigits(labels[Len(labels)])
        THEN Bind(url_ipv4(labels), LAMBDA ip :
                 IF ip.ok
                 THEN [ok |-> TRUE, kind |-> "Ipv4", ip |-> SomeV4(ip.v),
                       domain |-> <<>>, port |-> [some |-> port.some, v |-> port.v]]
                 ELSE UrlErr)
        ELSE [ok |-> TRUE, kind |-> "Domain", ip |-> NoneIp, domain |-> to_lowercase(h),
              port |-> [some |-> port.some, v |-> port.v]])

url_bracketed(token, c) ==
    Bind(SubSeq(token, c + 1, Len(token)), LAMBDA rest :
    Bind(IF rest = <<>> THEN url_port(<<>>)
         ELSE IF rest[1] = 58 THEN url_port(Tail(rest))
         ELSE [ok |-> FALSE, some |-> FALSE, v |-> 0], LAMBDA port :
    Bind(url_ipv6(SubSeq(token, 2, c - 1)), LAMBDA ip :
        IF ~ip.ok \/ ~port.ok THEN UrlErr
        ELSE [ok |-> TRUE, kind |-> "Ipv6", ip |-> SomeV6(ip.v),
              domain |-> <<>>, port |-> [some |-> port.some, v |-> port.v]])))

Url_parse(token) ==
    IF token # <<>> /\ token[1] = 91
    THEN LET close == {i \in 1..Len(token) : token[i] = 93}
         IN  IF close = {} THEN UrlErr
             ELSE url_bracketed(token, CHOOSE i \in close : \A j \in close : i <= j)
    ELSE LET colon == {i \in 1..Len(token) : token[i] = 58}
         IN  IF colon = {} THEN url_host(token, url_port(<<>>))
             ELSE Bind(CHOOSE i \in colon : \A j \in colon : i <= j, LAMBDA c :
                      url_host(SubSeq(token, 1, c - 1),
                               url_port(SubSeq(token, c + 1, Len(token)))))

(***************************************************************************)
(* protocol.rs parse_req_http_connect: the request line, then header lines *)
(* up to the empty one; only then is the request line looked at.           *)
(***************************************************************************)
RECURSIVE skip_headers(_)
skip_headers(r) ==
    Try(get_line(r), LAMBDA l :
        IF Len(l.val) > 0 THEN skip_headers(l.r) ELSE Got(<<>>, l.r))

parse_req_http_connect(r) ==
    TryFrame(get_line(r), LAMBDA line :
    TryFrame(skip_headers(line.r), LAMBDA hdr :
    Bind(split(line.val, 32), LAMBDA parts :
        IF Len(parts) # 3 THEN FrameErr(Other("Bad Request"))
        ELSE IF parts[1] # <<79, 78, 78, 69, 67, 84>>
        THEN FrameErr(UnknownCmd(0))
        ELSE
    Bind(Url_parse(parts[2]), LAMBDA parsed_url :
        IF ~parsed_url.ok THEN FrameErr(Other("Bad Request Url"))
        ELSE FrameReq(Request("Http", "Connect", 0,
                              IF parsed_url.kind = "Domain"
                              THEN SomeStr(parsed_url.domain) ELSE NoneStr,
                              parsed_url.ip,
                              IF parsed_url.port.some THEN parsed_url.port.v ELSE 80,
                              parsed_url.kind,
                              into_inner(hdr.r)),
                      hdr.r)))))

(***************************************************************************)
(* protocol.rs parse_req: dispatch on the first byte.                      *)
(***************************************************************************)
parse_req_any(src, authorized) ==
    TryFrame(get_u8(with_capacity(src)), LAMBDA n_ver :
        CASE n_ver.val = 4 -> parse_req_v4(n_ver.r)
          [] n_ver.val = 5 -> parse_req_v5(n_ver.r)
          [] n_ver.val = 67 -> parse_req_http_connect(n_ver.r)
          [] OTHER -> FrameErr(VnUnsupported(n_ver.val)))

parse_req(src, authorized) ==
    TryFrame(get_u8(with_capacity(src)), LAMBDA n_ver :
        CASE n_ver.val = 4 -> parse_req_v4(n_ver.r)
          [] n_ver.val = 5 -> IF ~authorized THEN parse_auth(n_ver.r)
                              ELSE parse_req_v5(n_ver.r)
          [] n_ver.val = 67 -> parse_req_http_connect(n_ver.r)
          [] OTHER -> FrameErr(VnUnsupported(n_ver.val)))

\* pre_check_parsing: Incomplete becomes "no frame yet".
pre_check_parsing(src, authorized) ==
    Bind(parse_req(src, authorized), LAMBDA f :
        IF f.err = Incomplete THEN [f EXCEPT !.err = NoErr, !.kind = "None"] ELSE f)

(***************************************************************************)
(* protocol.rs Reply: the reply is assembled in a BufWriter<Vec<u8>> and   *)
(* what is handed to the caller is BufWriter::buffer(), the bytes still    *)
(* waiting in buf.                                                         *)
(***************************************************************************)
RECURSIVE WriteEach(_, _)
\* one BufWriter write per element of datas, in order
WriteEach(w, datas) ==
    IF datas = <<>> THEN w ELSE WriteEach(BufWrite(w, Head(datas)), Tail(datas))

ReplyCmd_code(cmd) ==
    CASE cmd = "Successful" -> 0
      [] cmd = "ServerError" -> 1
      [] cmd = "RulesNotAllowed" -> 2
      [] cmd = "NetworkUnreachable" -> 3
      [] cmd = "HostUnreachable" -> 4
      [] cmd = "ConnectionRefused" -> 5
      [] cmd = "TtlExpired" -> 6
      [] cmd = "CmdTypeUnsupported" -> 7
      [] cmd = "AddrTypeUnsupported" -> 8

as_u8(cmd, ver) ==
    CASE ver = "V4" -> (CASE cmd = "Successful" -> 90
                          [] cmd = "ConnectionRefused" -> 91
                          [] OTHER -> 92)
      [] ver = "V5" -> ReplyCmd_code(cmd)
      [] OTHER -> 0

get_cmd_by_err_refused(err) ==
    CASE err.kind = "AddrTypeUnsupported" -> "CmdTypeUnsupported"
      [] err.kind = "UnknownCmd" -> "CmdTypeUnsupported"
      [] err.kind = "IoErr" ->
            IF err.msg = "ConnectionRefused" THEN "ConnectionRefused" ELSE "ServerError"
      [] OTHER -> "ServerError"

\* Reply::get_cmd_by_err
get_cmd_by_err(err) ==
    CASE err.kind = "AddrTypeUnsupported" -> "CmdTypeUnsupported"
      [] err.kind = "UnknownCmd" -> "CmdTypeUnsupported"
      [] err.kind = "IoErr" ->
            IF err.msg \in {"ConnectionRefused", "ConnectionReset"}
            THEN "ConnectionRefused" ELSE "ServerError"
      [] OTHER -> "ServerError"

AType_code(a_type) ==
    CASE a_type = "Ipv4" -> 1 [] a_type = "Domain" -> 3 [] a_type = "Ipv6" -> 4

\* "HTTP/1.1 400 Connection Failed\r\n\r\n"
HttpFailed ==
    <<72, 84, 84, 80, 47, 49, 46, 49, 32, 52, 48, 48, 32, 67, 111, 110, 110, 101,
      99, 116, 105, 111, 110, 32, 70, 97, 105, 108, 101, 100, 13, 10, 13, 10>>

\* "HTTP/1.1 200 Connection Established\r\n\r\n"
HttpEstablished ==
    <<72, 84, 84, 80, 47, 49, 46, 49, 32, 50, 48, 48, 32, 67, 111, 110, 110, 101,
      99, 116, 105, 111, 110, 32, 69, 115, 116, 97, 98, 108, 105, 115, 104, 101,
      100, 13, 10, 13, 10>>

Reply_error_v5(ver, err) ==
    WriteEach(NewBufWriter,
              << <<5>>, <<as_u8(get_cmd_by_err(err), "V5")>>, <<0>>, <<1>>,
                 <<0, 0, 0, 0>>, <<0, 0>> >>).buf

\* Reply::error: the failure reply of the version the Reply is set to
Reply_error(ver, err) ==
    LET code == as_u8(get_cmd_by_err(err), ver)
    IN  CASE ver = "V4" ->
               WriteEach(NewBufWriter, << <<0>>, <<code>>, <<0, 0>>, <<0, 0, 0, 0>> >>).buf
          [] ver = "V5" ->
               WriteEach(NewBufWriter,
                         << <<5>>, <<code>>, <<0>>, <<1>>, <<0, 0, 0, 0>>, <<0, 0>> >>).buf
          [] OTHER -> BufWrite(NewBufWriter, HttpFailed).buf

\* write_addr: the address part of a SOCKS5 success reply
write_addr(w, a_type, dst_addr, dst_domain) ==
    CASE a_type = "Ipv4" -> BufWrite(w, WideToBytes(dst_addr.v))
      [] a_type = "Domain" ->
            BufWrite(BufWrite(w, << Len(dst_domain.v) % 256 >>), dst_domain.v)
      [] a_type = "Ipv6" -> BufWrite(w, WideToBytes(dst_addr.v))

Reply_successful(ver, a_type, dst_addr, dst_domain, port) ==
    CASE ver = "V4" ->
           LET w == WriteEach(NewBufWriter,
                              << <<0>>, <<as_u8("Successful", ver)>>, U16ToBytes(port) >>)
           IN  (IF dst_addr.fam = "V4" THEN BufWrite(w, WideToBytes(dst_addr.v)) ELSE w).buf
      [] ver = "V5" ->
           LET w == WriteEach(NewBufWriter,
                              << <<5>>, <<as_u8("Successful", ver)>>, <<0>>,
                                 <<AType_code(a_type)>> >>)
           IN  BufWrite(write_addr(w, a_type, dst_addr, dst_domain), U16ToBytes(port)).buf
      [] OTHER -> BufWrite(NewBufWriter, HttpEstablished).buf

Reply_auth_refused(n_method) == WriteEach(NewBufWriter, << <<5>>, <<255>> >>).buf

\* Reply::auth
Reply_auth(n_method) == WriteEach(NewBufWriter, << <<5>>, <<n_method>> >>).buf

(***************************************************************************)
(* The byte streams a client may send.  Frames are built field by field    *)
(* from small sets of values; WellFormed holds the frames of the three     *)
(* dialects as the protocols define them, Malformed the frames the parser  *)
(* has to reject or that the protocols do not allow.                       *)
(***************************************************************************)
Ports == { <<34, 195>>, <<0, 80>> }

Ipv4s == { <<192, 168, 1, 1>>, <<10, 0, 0, 0>> }

UserIds == { <<>>, <<65, 66>> }

V4Frames(cmds) ==
    { <<4, c>> \o p \o ip \o u \o <<0>> : c \in cmds, p \in Ports, ip \in Ipv4s, u \in UserIds }

\* a_type 4 with the 16 address bytes 1..16
V6Addr == <<4>> \o [i \in 1..16 |-> i]

\* a_type 1 with 192.168.1.1, a_type 3 with "a.cc", a_type 4
V5GoodAddrs == { <<1, 192, 168, 1, 1>>, <<3, 4, 97, 46, 99, 99>>, V6Addr }

\* an a_type that does not exist, and a domain that is not UTF-8
V5BadAddrs == { <<2, 0>>, <<3, 1, 200>> }

V5Frames(cmds, addrs) ==
    { <<5, c, 0>> \o a \o p : c \in cmds, a \in addrs, p \in Ports }

AuthFrames == { <<5, 0>>, <<5, 1, 0>>, <<5, 2, 0, 2>> }

\*   CONNECT a.cc:443 HTTP/1.1
\*   CONNECT 1.2.3.4 HTTP/1.1
\*   CONNECT [::1]:8080 HTTP/1.1
\*   CONNECT A.cc:80 HTTP/1.1
\*   CONNECT nexel.cc:443 HTTP/1.1
HttpGoodLines ==
    { <<67, 79, 78, 78, 69, 67, 84, 32, 110, 101, 120, 101, 108, 46, 99, 99, 58, 52, 52, 51, 32, 72, 84, 84, 80, 47, 49, 46, 49>> } \cup
    { <<67, 79, 78, 78, 69, 67, 84, 32, 97, 46, 99, 99, 58, 52, 52, 51, 32, 72, 84, 84, 80, 47, 49, 46, 49>>,
      <<67, 79, 78, 78, 69, 67, 84, 32, 49, 46, 50, 46, 51, 46, 52, 32, 72, 84, 84, 80, 47, 49, 46, 49>>,
      <<67, 79, 78, 78, 69, 67, 84, 32, 91, 58, 58, 49, 93, 58, 56, 48, 56, 48, 32, 72, 84, 84, 80, 47, 49, 46, 49>>,
      <<67, 79, 78, 78, 69, 67, 84, 32, 65, 46, 99, 99, 58, 56, 48, 32, 72, 84, 84, 80, 47, 49, 46, 49>> }

\*   CONNECT a.cc HTTP/1.0
\*   COPY a.cc HTTP/1.1
\*   CONNECT a.cc
\*   CONNECT :443 HTTP/1.1
\*   CONNECT a.cc:99999 HTTP/1.1
HttpBadLines ==
    { <<67, 79, 78, 78, 69, 67, 84, 32, 97, 46, 99, 99, 32, 72, 84, 84, 80, 47, 49, 46, 48>>,
      <<67, 79, 80, 89, 32, 97, 46, 99, 99, 32, 72, 84, 84, 80, 47, 49, 46, 49>>,
      <<67, 79, 78, 78, 69, 67, 84, 32, 97, 46, 99, 99>>,
      <<67, 79, 78, 78, 69, 67, 84, 32, 58, 52, 52, 51, 32, 72, 84, 84, 80, 47, 49, 46, 49>>,
      <<67, 79, 78, 78, 69, 67, 84, 32, 97, 46, 99, 99, 58, 57, 57, 57, 57, 57, 32, 72, 84, 84, 80, 47, 49, 46, 49>> }

\* "X: aaa...a\r\n", a header line of LongLine bytes before its "\r\n"
LongLine == 66

LongHeader == <<88, 58, 32>> \o [i \in 1..(LongLine - 3) |-> 97] \o <<13, 10>>

\* no header, the one header line "H: v", or the long header line
HeaderBlocks == { <<>>, <<72, 58, 32, 118, 13, 10>>, LongHeader }

HttpFrames(lines) ==
    { l \o <<13, 10>> \o h \o <<13, 10>> : l \in lines, h \in HeaderBlocks }

\* a request line whose '\r' is not followed by '\n'
HttpBroken == { l \o <<13, 120, 13, 10, 13, 10>> : l \in HttpGoodLines }

WellFormed(authorized) ==
    V4Frames({1, 2, 3}) \cup HttpFrames(HttpGoodLines)
    \cup (IF authorized THEN V5Frames({1, 2, 3}, V5GoodAddrs) ELSE AuthFrames)

Malformed ==
    V4Frames({9}) \cup V5Frames({0}, V5GoodAddrs) \cup V5Frames({1}, V5BadAddrs)
    \cup HttpFrames(HttpBadLines) \cup HttpBroken
    \cup { <<255>>, <<0, 1>>, <<71, 69, 84, 32>> }

\* bytes that follow a frame in the same stream
Trailers == { <<>>, <<201>> }

\* an IPv6 request followed by enough further bytes for get_u128 to go on
PadLen == 110

V6Padded == { f \o [i \in 1..PadLen |-> 0] : f \in V5Frames({1}, {V6Addr}) }

ParserInputs ==
    { f \o t : f \in WellFormed(TRUE) \cup WellFormed(FALSE) \cup Malformed, t \in Trailers }
    \cup V6Padded \cup { <<>> }

(***************************************************************************)
(* The state of one connection.                                            *)
(***************************************************************************)
VARIABLES
    role,        \* "client": proxy_cfg is Some (run); "server": None (run_on_server)
    tls,         \* proxy_cfg.cert_path is not empty
    sent,        \* every byte the client sends on this connection
    cin,         \* the client's bytes not yet read from the client socket
    cClose,      \* the client closes its sending side after its last byte
    rin,         \* the remote's bytes not yet read from the outbound socket
    rClose,      \* the remote closes its sending side after its last byte
    authorized,  \* run's flag of the same name
    buffer,      \* recv_and_parse_req's buffer
    parsed,      \* what the latest parse_req call returned
    frame,       \* what recv_and_parse_req returned
    pc,          \* where the connection's task stands
    req,         \* the Request that process works on
    replyVer,    \* Reply.ver
    verdict,     \* what the rule store says about the destination
    target,      \* the address handed to timeout_connect
    failure,     \* the error process_request returned
    remote,      \* the peer of the established outbound socket
    replies,     \* the replies written to the client, in order
    cout,        \* every byte written to the client socket
    uout,        \* every byte written to the outbound socket
    replayed,    \* how many bytes of uout proxy() wrote
    half,        \* the two half-copies of connect_two_way
    rd,          \* the bytes each half-copy has read so far
    shut,        \* which write halves were shut down
    result,      \* what run / run_on_server returned
    reads,       \* how many reads the current recv_and_parse_req call has made
    looked,      \* rule::ip or rule::domain was called for the request
    rule_yaml,   \* the records of the rule file that initial() has not read yet
    store,       \* rule.rs: the rule maps
    loaded,      \* what initial() returned
    query,       \* the rule store queries of each caller
    listener,    \* the accept loop of the executable
    conns,       \* the connections the listener has accepted
    call         \* one call of a BufReader method: its arguments and what it returned

vars == << role, tls, sent, cin, cClose, rin, rClose, authorized, buffer, parsed,
           frame, pc, reads, looked, req, replyVer, verdict, target, failure, remote, replies,
           cout, uout, replayed, half, rd, shut, result,
           rule_yaml, store, loaded, query, listener, conns, call >>

connVars == << req, replyVer, verdict, target, failure, remote, replies, cout,
               uout, replayed, half, rd, shut, result >>

\* the process around the connection: the rule store and the listener
processVars == << rule_yaml, store, loaded, query, listener, conns, call >>

envVars == << role, tls, sent, cClose, rClose, processVars >>

\* one connection on its own: the rule store answers are inputs of
\* ProcessRequest and no other connection exists
NoProcess ==
    /\ rule_yaml = <<>> /\ store = <<>> /\ loaded = "" /\ query = <<>>
    /\ listener = "" /\ conns = <<>> /\ call = <<>>

\* reads is counted up to ReadsSeen: one read, or several
ReadsSeen == 2

NoFrame ==
    [err |-> NoErr, kind |-> "None", methods |-> <<>>, req |-> NoRequest, consumed |-> 0]

ReadTimeout == Other("read from connection timeout")

NoTarget == [to |-> "", ip |-> NoneIp, domain |-> NoneStr, port |-> 0]

IdleHalf == [pc |-> "idle", buf |-> <<>>, eof |-> FALSE, err |-> FALSE]

Dirs == {"ab", "ba"}

Reply_new_v4 == "V4"

\* Reply::new(): the version a Reply starts with
Reply_new == "V5"

InitConn ==
    /\ buffer = <<>> /\ parsed = NoFrame /\ frame = NoFrame /\ pc = "parse"
    /\ req = NoRequest /\ replyVer = Reply_new /\ verdict = "" /\ target = NoTarget
    /\ failure = NoErr /\ remote = "" /\ replies = <<>> /\ cout = <<>> /\ uout = <<>>
    /\ replayed = 0
    /\ half = [d \in Dirs |-> IdleHalf]
    /\ rd = [d \in Dirs |-> <<>>]
    /\ shut = [a |-> FALSE, b |-> FALSE]
    /\ result = "running"
    /\ reads = 0
    /\ looked = FALSE

(***************************************************************************)
(* protocol.rs recv_and_parse_req: parse what the buffer holds; on         *)
(* Incomplete read more and parse again from the start of the buffer.      *)
(***************************************************************************)
\* io.read_buf(&mut buffer): the bytes read are appended to the buffer
read_buf_broken(buf, chunk) == chunk

read_buf(buf, chunk) == buf \o chunk

RecvParse ==
    /\ pc = "parse"
    /\ parsed' = parse_req(buffer, authorized)
    /\ frame' = pre_check_parsing(buffer, authorized)
    /\ pc' = IF frame'.kind = "None" THEN "read" ELSE "frame"
    /\ UNCHANGED << envVars, reads, looked, cin, rin, authorized, buffer, connVars >>

RecvRead ==
    /\ pc = "read"
    /\ \E n \in 1..Len(cin) :
          /\ buffer' = read_buf(buffer, Take(cin, n))
          /\ cin' = Drop(cin, n)
    /\ pc' = "parse"
    /\ reads' = Min(reads + 1, ReadsSeen)
    /\ UNCHANGED << envVars, looked, rin, authorized, parsed, frame, connVars >>

\* read_buf returned 0: the client closed
RecvEof ==
    /\ pc = "read" /\ cin = <<>> /\ cClose
    /\ frame' = IF buffer = <<>> THEN NoFrame ELSE FrameErr(IoErr("ConnectionReset"))
    /\ pc' = "frame"
    /\ UNCHANGED << envVars, reads, looked, cin, rin, authorized, buffer, parsed, connVars >>

\* a read that no timer ends
RecvTimeout_off ==
    /\ pc = "read" /\ cin # cin
    /\ UNCHANGED vars

\* no byte arrived within the 120 seconds of one read
RecvTimeout ==
    /\ pc = "read"
    /\ frame' = FrameErr(ReadTimeout)
    /\ pc' = "frame"
    /\ UNCHANGED << envVars, reads, looked, cin, rin, authorized, buffer, parsed, connVars >>

\* read_buf failed: the client reset the connection
RecvIoErr ==
    /\ pc = "read"
    /\ frame' = FrameErr(IoErr("ConnectionReset"))
    /\ pc' = "frame"
    /\ UNCHANGED << envVars, reads, looked, cin, rin, authorized, buffer, parsed, connVars >>

(***************************************************************************)
(* The parser alone: one call of recv_and_parse_req on each input stream,  *)
(* delivered in every possible sequence of reads.                          *)
(***************************************************************************)
InitParser ==
    /\ role = "client" /\ tls = FALSE
    /\ sent \in ParserInputs /\ cin = sent
    /\ cClose \in BOOLEAN
    /\ rin = <<>> /\ rClose = FALSE
    /\ authorized \in BOOLEAN
    /\ InitConn
    /\ NoProcess

NextParser == RecvParse \/ RecvRead \/ RecvEof \/ RecvTimeout \/ RecvIoErr

SpecParser == InitParser /\ [][NextParser]_vars

(***************************************************************************)
(* connection.rs: run (client role) and run_on_server (server role).       *)
(* Writes to the client socket are taken to succeed.                       *)
(***************************************************************************)
Written(kind, bytes) == [kind |-> kind, bytes |-> bytes]

\* Connection::reply: write the reply to the client socket and flush
reply(kind, bytes) ==
    /\ replies' = Append(replies, Written(kind, bytes))
    /\ cout' = cout \o bytes

\* run, ReqFrame::Auth: answer "no authentication", then receive again with
\* authorized set and a new, empty buffer
RunAuth ==
    /\ pc = "frame" /\ role = "client"
    /\ frame.err = NoErr /\ frame.kind = "Auth"
    /\ reply("auth", Reply_auth(0))
    /\ authorized' = TRUE
    /\ buffer' = <<>>
    /\ reads' = 0
    /\ pc' = "parse"
    /\ UNCHANGED << envVars, looked, cin, rin, parsed, frame, req, replyVer, verdict, target,
                    failure, remote, uout, replayed, half, rd, shut, result >>

set_ver_kept(old, ver) == old

\* Reply::set_ver
set_ver(old, ver) == ver

\* run / run_on_server, ReqFrame::Req: process starts with reply.set_ver
RunReq ==
    /\ pc = "frame"
    /\ frame.err = NoErr /\ frame.kind = "Req"
    /\ req' = frame.req
    /\ replyVer' = set_ver(replyVer, frame.req.ver)
    /\ pc' = "route"
    /\ UNCHANGED << envVars, reads, looked, cin, rin, authorized, buffer, parsed, frame, verdict,
                    target, failure, remote, replies, cout, uout, replayed, half, rd,
                    shut, result >>

\* Ok(None): the client closed before it sent anything
RunNone ==
    /\ pc = "frame"
    /\ frame.err = NoErr /\ frame.kind = "None"
    /\ result' = "Ok"
    /\ pc' = "done"
    /\ UNCHANGED << envVars, reads, looked, cin, rin, authorized, buffer, parsed, frame, req, replyVer,
                    verdict, target, failure, remote, replies, cout, uout, replayed,
                    half, rd, shut >>

\* Err(err): reply.error(&err) on the Reply made by Reply::new(), return Err
RunErr ==
    /\ pc = "frame"
    /\ frame.err # NoErr
    /\ reply("error", Reply_error(replyVer, frame.err))
    /\ failure' = frame.err
    /\ result' = "Err"
    /\ pc' = "done"
    /\ UNCHANGED << envVars, reads, looked, cin, rin, authorized, buffer, parsed, frame, req, replyVer,
                    verdict, target, remote, uout, replayed, half, rd, shut >>

(***************************************************************************)
(* connection.rs process_request: where to dial.                           *)
(***************************************************************************)
\* Ver as u8
Ver_as_u8(ver) == CASE ver = "V4" -> 4 [] ver = "V5" -> 5 [] OTHER -> 6

\* what rule::ip / rule::domain may answer
Routings == {"Direct", "Proxy", "Reject"}

\* ProxyCfg::addr(): proxy_srv_host:proxy_srv_port
ProxyAddr == [to |-> "proxy", ip |-> NoneIp, domain |-> SomeStr(<<112>>), port |-> 6789]

\* the destination the request names
DstAddr(r) == [to |-> "dst", ip |-> r.dst_addr, domain |-> r.dst_domain, port |-> r.dst_port]

use_any_proxy(proxy_cfg, routing) == routing = "Proxy"

\* if let Some(proxy) = &self.proxy_cfg { if rule(..) == Routing::Proxy {..} }
use_proxy(proxy_cfg, routing) == proxy_cfg /\ routing = "Proxy"

is_connect_any(cmd) == TRUE

\* match req.cmd { ReqCmd::Connect => .. }
is_connect(cmd) == cmd = "Connect"

\* the rule store's answer for the destination is routing; lookup_failed is
\* rule::domain ending in a failed host lookup.  The rules are looked at only
\* for a Connect with an address, and only with a proxy configuration.
ProcessRequest ==
    /\ pc = "route"
    /\ \E routing \in Routings, lookup_failed \in BOOLEAN :
          /\ verdict' = routing
          /\ CASE ~is_connect(req.cmd) ->
                    /\ failure' = NotImplemented
                    /\ pc' = "failed"
                    /\ target' = target
                    /\ looked' = looked
               [] is_connect(req.cmd) /\ ~req.dst_addr.some /\ ~req.dst_domain.some ->
                    /\ failure' = AddrTypeUnsupported(Ver_as_u8(req.ver))
                    /\ pc' = "failed"
                    /\ target' = target
                    /\ looked' = looked
               [] is_connect(req.cmd) /\ ~req.dst_addr.some /\ req.dst_domain.some
                  /\ role = "client" /\ lookup_failed ->
                    /\ failure' = IoErr("Other")
                    /\ pc' = "failed"
                    /\ target' = target
                    /\ looked' = TRUE
               [] OTHER ->
                    /\ target' = IF use_proxy(role = "client", routing)
                                 THEN ProxyAddr ELSE DstAddr(req)
                    /\ pc' = "dial"
                    /\ failure' = failure
                    /\ looked' = (role = "client")
    /\ UNCHANGED << envVars, reads, cin, rin, authorized, buffer, parsed, frame, req, replyVer,
                    remote, replies, cout, uout, replayed, half, rd, shut, result >>

(***************************************************************************)
(* connection.rs timeout_connect.                                          *)
(***************************************************************************)
ConnectTimeout == Other("connection timout")

\* what TcpStream::connect within 120 seconds may end in
DialErrors == { IoErr("ConnectionRefused"), IoErr("Other"), ConnectTimeout }

\* the socket is connected; process then takes the direct branch, or finds
\* that there is no proxy configuration, or goes on to proxy()
DialOk ==
    /\ pc = "dial"
    /\ remote' = target.to
    /\ CASE target.to = "dst" -> pc' = "reply" /\ result' = result /\ failure' = failure
         [] target.to # "dst" /\ role # "client" ->
               /\ pc' = "done" /\ result' = "Err"
               /\ failure' = Other("Proxy configuration not ")
         [] OTHER -> pc' = "proxy" /\ result' = result /\ failure' = failure
    /\ UNCHANGED << envVars, reads, looked, cin, rin, authorized, buffer, parsed, frame, req, replyVer,
                    verdict, target, replies, cout, uout, replayed, half, rd, shut >>

DialFail ==
    /\ pc = "dial"
    /\ failure' \in DialErrors
    /\ pc' = "failed"
    /\ UNCHANGED << envVars, reads, looked, cin, rin, authorized, buffer, parsed, frame, req, replyVer,
                    verdict, target, remote, replies, cout, uout, replayed, half, rd,
                    shut, result >>
(***************************************************************************)
(* connection.rs connect_two_way: two half-copies, "ab" from the client    *)
(* to the outbound socket and "ba" back, joined.  tokio::io::copy reads    *)
(* into a buffer and writes it out; at EOF with the buffer written it      *)
(* returns; the half then shuts the writer down.                           *)
(***************************************************************************)
\* the room in io::copy's buffer
CopyCap == 2

StartHalf == [pc |-> "copy", buf |-> <<>>, eof |-> FALSE, err |-> FALSE]

\* what the half-copy d reads from, and what it writes to
Src(d) == IF d = "ab" THEN cin ELSE rin

SrcClosed(d) == IF d = "ab" THEN cClose ELSE rClose

\* the write half that the half-copy d shuts down
Dst(d) == IF d = "ab" THEN "b" ELSE "a"

CopyRead(d) ==
    /\ pc = "splice" /\ half[d].pc = "copy"
    /\ ~half[d].eof /\ Len(half[d].buf) < CopyCap
    /\ \E n \in 1..Min(Len(Src(d)), CopyCap - Len(half[d].buf)) :
          /\ half' = [half EXCEPT ![d].buf = @ \o Take(Src(d), n)]
          /\ rd' = [rd EXCEPT ![d] = @ \o Take(Src(d), n)]
          /\ IF d = "ab" THEN cin' = Drop(cin, n) /\ rin' = rin
                         ELSE rin' = Drop(rin, n) /\ cin' = cin
    /\ UNCHANGED << envVars, reads, looked, authorized, buffer, parsed, frame, pc, req, replyVer,
                    verdict, target, failure, remote, replies, cout, uout, replayed,
                    shut, result >>

\* a read of 0 bytes: the peer closed its sending side
CopyEof(d) ==
    /\ pc = "splice" /\ half[d].pc = "copy"
    /\ ~half[d].eof /\ Src(d) = <<>> /\ SrcClosed(d)
    /\ half' = [half EXCEPT ![d].eof = TRUE]
    /\ UNCHANGED << envVars, reads, looked, cin, rin, authorized, buffer, parsed, frame, pc, req,
                    replyVer, verdict, target, failure, remote, replies, cout, uout,
                    replayed, rd, shut, result >>

copy_write_broken(out, buf, n) == out \o Drop(buf, Len(buf) - n)

\* poll_write of the buffered bytes: the first n of them go out
copy_write(out, buf, n) == out \o Take(buf, n)

CopyWrite(d) ==
    /\ pc = "splice" /\ half[d].pc = "copy"
    /\ half[d].buf # <<>>
    /\ \E n \in 1..Len(half[d].buf) :
          /\ IF d = "ab" THEN uout' = copy_write(uout, half[d].buf, n) /\ cout' = cout
                         ELSE cout' = copy_write(cout, half[d].buf, n) /\ uout' = uout
          /\ half' = [half EXCEPT ![d].buf = Drop(@, n)]
    /\ UNCHANGED << envVars, reads, looked, cin, rin, authorized, buffer, parsed, frame, pc, req,
                    replyVer, verdict, target, failure, remote, replies, replayed, rd,
                    shut, result >>

copy_done_early(h) == h.eof

\* io::copy returns Ok once the source is at EOF and the buffer is written
copy_done(h) == h.eof /\ h.buf = <<>>

CopyDone(d) ==
    /\ pc = "splice" /\ half[d].pc = "copy"
    /\ copy_done(half[d])
    /\ half' = [half EXCEPT ![d].pc = "shutdown"]
    /\ UNCHANGED << envVars, reads, looked, cin, rin, authorized, buffer, parsed, frame, pc, req,
                    replyVer, verdict, target, failure, remote, replies, cout, uout,
                    replayed, rd, shut, result >>

\* io::copy returns Err: a read or a write failed; the result is dropped
CopyFail(d) ==
    /\ pc = "splice" /\ half[d].pc = "copy"
    /\ ~copy_done(half[d])
    /\ half' = [half EXCEPT ![d].pc = "shutdown", ![d].err = TRUE]
    /\ UNCHANGED << envVars, reads, looked, cin, rin, authorized, buffer, parsed, frame, pc, req,
                    replyVer, verdict, target, failure, remote, replies, cout, uout,
                    replayed, rd, shut, result >>

\* writer.shutdown(): the write half is closed, the half-copy is over
Shutdown(d) ==
    /\ pc = "splice" /\ half[d].pc = "shutdown"
    /\ shut' = [shut EXCEPT ![Dst(d)] = TRUE]
    /\ half' = [half EXCEPT ![d].pc = "done"]
    /\ UNCHANGED << envVars, reads, looked, cin, rin, authorized, buffer, parsed, frame, pc, req,
                    replyVer, verdict, target, failure, remote, replies, cout, uout,
                    replayed, rd, result >>

joined_any(h) == h["ab"].pc = "done" \/ h["ba"].pc = "done"

\* tokio::join!: both futures have completed
joined(h) == h["ab"].pc = "done" /\ h["ba"].pc = "done"

\* connect_two_way returns Ok(()), and so do process and run
Return ==
    /\ pc = "splice"
    /\ joined(half)
    /\ result' = "Ok"
    /\ pc' = "done"
    /\ UNCHANGED << envVars, reads, looked, cin, rin, authorized, buffer, parsed, frame, req, replyVer,
                    verdict, target, failure, remote, replies, cout, uout, replayed,
                    half, rd, shut >>

(***************************************************************************)
(* connection.rs process: the direct branch and the failure branch.        *)
(***************************************************************************)
\* reply.successful(..), then connect_two_way
ReplySuccess ==
    /\ pc = "reply"
    /\ reply("success", Reply_successful(replyVer, req.a_type, req.dst_addr,
                                         req.dst_domain, req.dst_port))
    /\ half' = [d \in Dirs |-> StartHalf]
    /\ pc' = "splice"
    /\ UNCHANGED << envVars, reads, looked, cin, rin, authorized, buffer, parsed, frame, req, replyVer,
                    verdict, target, failure, remote, uout, replayed, rd, shut, result >>

\* the loop of run goes round again after the failure reply
ReplyFailure_continue ==
    /\ pc = "failed"
    /\ reply("error", Reply_error(replyVer, failure))
    /\ buffer' = <<>>
    /\ reads' = 0
    /\ pc' = "parse"
    /\ UNCHANGED << envVars, looked, cin, rin, authorized, parsed, frame, req, replyVer,
                    verdict, target, failure, remote, uout, replayed, half, rd, shut, result >>

\* reply.error(&e), then Ok(())
ReplyFailure ==
    /\ pc = "failed"
    /\ reply("error", Reply_error(replyVer, failure))
    /\ result' = "Ok"
    /\ pc' = "done"
    /\ UNCHANGED << envVars, reads, looked, cin, rin, authorized, buffer, parsed, frame, req, replyVer,
                    verdict, target, failure, remote, uout, replayed, half, rd, shut >>

(***************************************************************************)
(* connection.rs proxy: TLS to the proxy when a certificate is configured, *)
(* then one write_buf of req.raw, flush, connect_two_way.                  *)
(***************************************************************************)
ProxyTlsOk ==
    /\ pc = "proxy" /\ tls
    /\ pc' = "replay"
    /\ UNCHANGED << envVars, reads, looked, cin, rin, authorized, buffer, parsed, frame, req, replyVer,
                    verdict, target, failure, remote, replies, cout, uout, replayed,
                    half, rd, shut, result >>

\* tls::connect(..)? fails: proxy returns the error, nothing is written
ProxyTlsFail ==
    /\ pc = "proxy" /\ tls
    /\ failure' = IoErr("Other")
    /\ result' = "Err"
    /\ pc' = "done"
    /\ UNCHANGED << envVars, reads, looked, cin, rin, authorized, buffer, parsed, frame, req, replyVer,
                    verdict, target, remote, replies, cout, uout, replayed, half, rd,
                    shut >>

\* the free space of the outbound socket's send buffer when proxy() writes
SndBuf == 32

\* write_buf: one poll_write, which takes as much of the bytes as the socket
\* accepts at that moment
write_buf(out, bytes) == out \o Take(bytes, SndBuf)

ProxyWrite ==
    /\ pc = "replay" \/ (pc = "proxy" /\ ~tls)
    /\ uout' = write_buf(uout, req.raw)
    /\ replayed' = Len(uout') - Len(uout)
    /\ half' = [d \in Dirs |-> StartHalf]
    /\ pc' = "splice"
    /\ UNCHANGED << envVars, reads, looked, cin, rin, authorized, buffer, parsed, frame, req, replyVer,
                    verdict, target, failure, remote, replies, cout, rd, shut, result >>

(***************************************************************************)
(* One connection from accept to the end of its task.                      *)
(***************************************************************************)
\* what follows the handshake on the client's side, and what the remote sends
Payload == <<201, 202>>

RemoteBytes == <<211, 212>>

\* SOCKS5 greeting; requests for 192.168.1.1:80 and a.cc:80
V5Greeting == <<5, 1, 0>>

V5ReqIp(c) == <<5, c, 0, 1, 192, 168, 1, 1, 0, 80>>

V5ReqDomain == <<5, 1, 0, 3, 4, 97, 46, 99, 99, 0, 80>>

V4Req(c) == <<4, c, 0, 80, 192, 168, 1, 1, 0>>

\* CONNECT a.cc:443 HTTP/1.1, without and with a header line
HttpReq(h) ==
    <<67, 79, 78, 78, 69, 67, 84, 32, 97, 46, 99, 99, 58, 52, 52, 51, 32, 72, 84, 84,
      80, 47, 49, 46, 49, 13, 10>> \o h \o <<13, 10>>

Handshakes ==
    { V4Req(1), V4Req(2), V5ReqIp(1), V5ReqIp(3), V5ReqDomain,
      V5Greeting \o V5ReqIp(1), V5Greeting \o V5ReqDomain,
      HttpReq(<<>>), HttpReq(<<72, 58, 32, 118, 13, 10>>) }

ConnInputs ==
    { h \o p : h \in Handshakes, p \in { <<>>, Payload } }
    \cup { <<>>, <<255>>, <<4, 1>>, V5Greeting \o <<5, 1>> }

Init ==
    /\ role \in {"client", "server"}
    /\ tls \in BOOLEAN
    /\ sent \in ConnInputs /\ cin = sent
    /\ cClose \in BOOLEAN
    /\ rin = RemoteBytes /\ rClose \in BOOLEAN
    /\ authorized = (role = "server")
    /\ InitConn
    /\ NoProcess

Next ==
    \/ RecvParse \/ RecvRead \/ RecvEof \/ RecvTimeout \/ RecvIoErr
    \/ RunAuth \/ RunReq \/ RunNone \/ RunErr
    \/ ProcessRequest \/ DialOk \/ DialFail
    \/ ReplySuccess \/ ReplyFailure
    \/ ProxyTlsOk \/ ProxyTlsFail \/ ProxyWrite
    \/ \E d \in Dirs : CopyRead(d)
    \/ \E d \in Dirs : CopyEof(d)
    \/ \E d \in Dirs : CopyWrite(d)
    \/ \E d \in Dirs : CopyDone(d)
    \/ \E d \in Dirs : CopyFail(d)
    \/ \E d \in Dirs : Shutdown(d)
    \/ Return

Spec == Init /\ [][Next]_vars

(***************************************************************************)
(* Properties of the parser, checked under SpecParser.  While pc is not    *)
(* "parse", parsed is what parse_req made of the present buffer.           *)
(***************************************************************************)
\* C1: raw fidelity.  The raw of a parsed Request is the bytes of the buffer
\* up to where the cursor stopped: it starts with the dialect byte and, for
\* HTTP, ends with the blank line that ends the header block.
RawFidelity ==
    (pc # "parse" /\ parsed.err = NoErr /\ parsed.kind = "Req") =>
        /\ parsed.consumed > 0
        /\ parsed.req.raw = Take(buffer, parsed.consumed)
        /\ parsed.req.raw[1] = buffer[1]
        /\ parsed.req.raw[1] \in {4, 5, 67}
        /\ parsed.req.ver = "Http" =>
              /\ parsed.consumed >= 4
              /\ SubSeq(buffer, parsed.consumed - 3, parsed.consumed) = <<13, 10, 13, 10>>
              /\ \A i \in 1..(parsed.consumed - 4) :
                    SubSeq(buffer, i, i + 3) # <<13, 10, 13, 10>>

\* an HTTP CONNECT with the long header line, parsed with a byte behind it
RawFidelityWitness ==
    /\ pc = "frame" /\ parsed.err = NoErr /\ parsed.kind = "Req"
    /\ parsed.req.ver = "Http"
    /\ Len(parsed.req.raw) > BufCapacity
    /\ Len(buffer) > parsed.consumed

\* C2: incomplete-safety.  Parsing a proper prefix of a well-formed frame
\* gives Incomplete, never a frame and never another error.
IncompleteSafety ==
    \A f \in WellFormed(authorized) :
        (pc # "parse" /\ IsPrefix(buffer, f) /\ buffer # f) => parsed.err = Incomplete

\* all of an HTTP CONNECT but its last byte has been parsed
IncompleteSafetyWitness ==
    /\ pc = "read" /\ sent \in WellFormed(authorized)
    /\ buffer # <<>> /\ buffer[1] = 67
    /\ Len(buffer) = Len(sent) - 1
    /\ parsed.err = Incomplete

\* C3: chunking independence.  The frame recv_and_parse_req returns after
\* any sequence of reads is the frame that parsing the whole stream gives,
\* which is what it returns when the stream arrives in one read.
ChunkingIndependence ==
    (pc = "frame" /\ frame.err = NoErr /\ frame.kind \in {"Auth", "Req"}) =>
        /\ frame = parse_req(sent, authorized)
        /\ frame.kind = "Req" => frame.req.raw = Take(sent, Len(frame.req.raw))

\* a well-formed request returned after several reads
ChunkingIndependenceWitness ==
    /\ pc = "frame" /\ frame.err = NoErr /\ frame.kind = "Req"
    /\ reads >= 2
    /\ sent \in WellFormed(authorized)

\* C4: first-byte dispatch.  4 goes to the SOCKS4 parser, 5 to the auth
\* parser before authorization and to the SOCKS5 request parser after it,
\* 'C' to the HTTP CONNECT parser; any other byte b fails VnUnsupported(b).
FirstByteDispatch ==
    (pc # "parse" /\ buffer # <<>>) =>
        LET rest == [src |-> buffer, pos |-> 1,
                     w |-> [inner |-> <<>>, buf |-> <<buffer[1]>>]]
        IN  /\ buffer[1] = 4 => parsed = parse_req_v4(rest)
            /\ (buffer[1] = 5 /\ ~authorized) =>
                  /\ parsed = parse_auth(rest)
                  /\ parsed.err = NoErr => parsed.kind = "Auth"
            /\ (buffer[1] = 5 /\ authorized) =>
                  /\ parsed = parse_req_v5(rest)
                  /\ parsed.err = NoErr => (parsed.kind = "Req" /\ parsed.req.ver = "V5")
            /\ buffer[1] = 67 => parsed = parse_req_http_connect(rest)
            /\ buffer[1] \notin {4, 5, 67} => parsed = FrameErr(VnUnsupported(buffer[1]))

\* a SOCKS5 greeting parsed before authorization
FirstByteDispatchWitness ==
    /\ pc = "frame" /\ buffer # <<>> /\ buffer[1] = 5 /\ ~authorized
    /\ parsed.err = NoErr /\ parsed.kind = "Auth"

(***************************************************************************)
(* Properties of a connection, checked under Spec.                         *)
(***************************************************************************)
\* the bytes of the replies written so far, and what follows them on each
\* socket: the bytes the half-copies wrote
Replied == Flatten([i \in 1..Len(replies) |-> replies[i].bytes])

TunnelledToClient == Drop(cout, Len(Replied))

TunnelledToRemote == Drop(uout, replayed)

Spliced == half["ab"].pc # "idle"

\* C5: routing.  In the client role with the verdict Proxy the dial goes to
\* the remote proxy; with the verdict Direct, and in the server role
\* whatever the verdict, it goes to the destination the request names.
RoutingOfConnect ==
    target # NoTarget =>
        /\ req.cmd = "Connect"
        /\ (role = "client" /\ verdict = "Proxy") =>
              (target.to = "proxy" /\ target.domain.v = <<112>> /\ target.port = 6789)
        /\ (role = "server" \/ verdict = "Direct") =>
              /\ target.to = "dst"
              /\ target.ip = req.dst_addr
              /\ target.domain = req.dst_domain
              /\ target.port = req.dst_port

\* the server role has dialled the destination although the rules say Proxy
RoutingOfConnectWitness ==
    /\ role = "server" /\ verdict = "Proxy"
    /\ remote = "dst" /\ target.domain = SomeStr(<<97, 46, 99, 99>>)

\* C6: on the proxy path no reply is written to the client before the
\* splice, the outbound socket first carries all of Request.raw, and the
\* tunnelled bytes come after it.
ProxyReplayWhole ==
    (Spliced /\ remote = "proxy") =>
        /\ \A i \in 1..Len(replies) : replies[i].kind = "auth"
        /\ IsPrefix(req.raw, uout)
        /\ uout = req.raw \o TunnelledToRemote

\* C7: direct-dial ordering.  A success reply is written only with the
\* outbound connection established, the splice on the direct path starts
\* only after it, and a failed dial ends with the error reply of the
\* request's dialect and without a splice.
DirectDialOrdering ==
    /\ (\E i \in 1..Len(replies) : replies[i].kind = "success") => remote = "dst"
    /\ (Spliced /\ remote = "dst") =>
          /\ replies # <<>>
          /\ replies[Len(replies)].kind = "success"
          /\ \A i \in 1..Len(replies) : replies[i].kind # "error"
    /\ (pc = "done" /\ target # NoTarget /\ remote = "") =>
          /\ failure \in DialErrors
          /\ ~Spliced
          /\ uout = <<>>
          /\ replies # <<>>
          /\ replies[Len(replies)].kind = "error"
          /\ \A i \in 1..Len(replies) : replies[i].kind # "success"
          /\ LET bytes == replies[Len(replies)].bytes
             IN  CASE req.ver = "V4" ->
                        /\ Len(bytes) = 8 /\ bytes[1] = 0
                        /\ bytes[2] = IF failure = IoErr("ConnectionRefused") THEN 91 ELSE 92
                   [] req.ver = "V5" ->
                        /\ Len(bytes) = 10 /\ bytes[1] = 5
                        /\ bytes[2] = IF failure = IoErr("ConnectionRefused") THEN 5 ELSE 1
                   [] OTHER -> bytes = HttpFailed

\* a SOCKS4 dial was refused and the client got the SOCKS4 rejection
DirectDialOrderingWitness ==
    /\ pc = "done" /\ target # NoTarget /\ remote = ""
    /\ req.ver = "V4" /\ failure = IoErr("ConnectionRefused")
    /\ replies[Len(replies)].bytes = <<0, 91, 0, 0, 0, 0, 0, 0>>

\* C8: half-close.  When the client side reaches EOF, the remote gets
\* exactly the bytes read from the client and only then has its write half
\* shut; the client's write half is shut only by the end of the other
\* half-copy, which ends only at its own EOF or error.
HalfClose ==
    /\ (half["ab"].pc = "done" /\ ~half["ab"].err) =>
          (half["ab"].eof /\ cin = <<>> /\ TunnelledToRemote = rd["ab"] /\ shut["b"])
    /\ shut["b"] => half["ab"].pc = "done"
    /\ (half["ba"].pc = "done" /\ ~half["ba"].err) =>
          (half["ba"].eof /\ rin = <<>> /\ TunnelledToClient = rd["ba"] /\ shut["a"])
    /\ shut["a"] => half["ba"].pc = "done"
    /\ \A d \in Dirs : half[d].pc \in {"shutdown", "done"} => (half[d].eof \/ half[d].err)
    /\ (half["ab"].pc = "done" /\ half["ba"].pc = "copy" /\ half["ba"].buf # <<>>) =>
          ENABLED CopyWrite("ba")

\* the client closed after its payload; the remote has all of it and the
\* shutdown, and the other direction still copies
HalfCloseWitness ==
    /\ half["ab"].pc = "done" /\ half["ab"].eof /\ ~half["ab"].err
    /\ rd["ab"] = Payload /\ TunnelledToRemote = Payload /\ shut["b"]
    /\ half["ba"].pc = "copy" /\ half["ba"].buf # <<>> /\ ~shut["a"]

\* C9: join.  The connection's task ends after a splice only when both
\* half-copies are over, each by its own EOF or error.
JoinSemantics ==
    (pc = "done" /\ Spliced) =>
        /\ result = "Ok"
        /\ \A d \in Dirs : half[d].pc = "done" /\ (half[d].err \/ (half[d].eof /\ half[d].buf = <<>>))
        /\ shut["a"] /\ shut["b"]

\* one half failed; the other went on to its EOF and delivered its bytes
JoinSemanticsWitness ==
    /\ pc = "done" /\ Spliced
    /\ half["ab"].err /\ ~half["ba"].err /\ half["ba"].eof
    /\ TunnelledToClient = RemoteBytes

\* C10: FIFO.  In each direction what was written is a prefix of what was
\* read, and what was read is the source's bytes in their order.
FifoPerDirection ==
    /\ IsPrefix(TunnelledToRemote, rd["ab"])
    /\ IsPrefix(TunnelledToClient, rd["ba"])
    /\ Spliced => (rd["ab"] \o cin = Drop(sent, Len(sent) - Len(rd["ab"]) - Len(cin)))
    /\ rd["ba"] \o rin = RemoteBytes
    /\ \A d \in Dirs : half[d].pc = "copy" =>
          rd[d] = (IF d = "ab" THEN TunnelledToRemote ELSE TunnelledToClient) \o half[d].buf

\* both directions are under way, one byte written and one buffered in each
FifoPerDirectionWitness ==
    /\ TunnelledToRemote = <<201>> /\ half["ab"].buf = <<202>>
    /\ TunnelledToClient = <<211>> /\ half["ba"].buf = <<212>>

(***************************************************************************)
(* The handshake alone: a connection from accept up to the reply or the    *)
(* proxy hand-over, for a client that keeps its side open, over requests   *)
(* of every dialect and address form.                                      *)
(***************************************************************************)
\* the lengths of the domain names asked for
DomainLens == {1, 4, 57, 58, 64, 255}

\* a SOCKS5 CONNECT for the domain "aa..a" of n bytes, port 80
V5ReqDomainOf(n) == <<5, 1, 0, 3, n>> \o [i \in 1..n |-> 97] \o <<0, 80>>

\* greetings with no method, with one and with two
Greetings == { <<5, 0>>, V5Greeting, <<5, 2, 0, 2>> }

HandshakeInputs ==
    { V5ReqDomainOf(n) : n \in DomainLens }
    \cup { V5Greeting \o V5ReqDomainOf(n) : n \in DomainLens }
    \cup { g \o V5ReqIp(1) : g \in Greetings }
    \cup { V5ReqIp(1), V5ReqIp(2), V5ReqIp(3), V5Greeting \o V5ReqIp(2) }
    \cup { V4Req(1), V4Req(2), V4Req(3), V4Req(9) }
    \cup V6Padded
    \cup { l \o <<13, 10, 13, 10>> : l \in HttpGoodLines \cup HttpBadLines }
    \cup HttpBroken
    \cup V5Frames({1}, V5BadAddrs)
    \cup { <<255>>, <<0, 1>> }

InitHandshake ==
    /\ role \in {"client", "server"}
    /\ tls = FALSE
    /\ sent \in HandshakeInputs /\ cin = sent
    /\ cClose = FALSE
    /\ rin = <<>> /\ rClose = FALSE
    /\ authorized = (role = "server")
    /\ InitConn
    /\ NoProcess

NextHandshake ==
    \/ RecvParse \/ RecvRead \/ RecvTimeout \/ RecvIoErr
    \/ RunAuth \/ RunReq \/ RunErr
    \/ ProcessRequest \/ DialOk \/ DialFail
    \/ ReplySuccess \/ ReplyFailure

SpecHandshake == InitHandshake /\ [][NextHandshake]_vars

(***************************************************************************)
(* The replies of the handshake.                                           *)
(***************************************************************************)
\* the replies of one kind written so far, oldest first
RepliesOf(kind) == { i \in 1..Len(replies) : replies[i].kind = kind }

\* the address of the request as a SOCKS5 reply carries it
AddrBytes(r) ==
    CASE r.a_type = "Domain" -> <<Len(r.dst_domain.v)>> \o r.dst_domain.v
      [] OTHER -> WideToBytes(r.dst_addr.v)

\* C11: the success reply is in the dialect of the request.  For SOCKS4 it
\* is exactly 0x00, 0x5a, the port and the IPv4 address, both big-endian;
\* for SOCKS5 it starts with 0x05, 0x00, 0x00 and the address type; for HTTP
\* it is the line "HTTP/1.1 200 Connection Established" and an empty line.
SuccessReplyDialect ==
    \A i \in RepliesOf("success") :
        CASE req.ver = "V4" ->
               replies[i].bytes
                   = <<0, 90>> \o U16ToBytes(req.dst_port) \o WideToBytes(req.dst_addr.v)
          [] req.ver = "V5" ->
               IsPrefix(<<5, 0, 0, AType_code(req.a_type)>>, replies[i].bytes)
          [] OTHER -> replies[i].bytes = HttpEstablished

\* C12: the SOCKS5 success reply is complete: 0x05, 0x00, 0x00, the address
\* type, the address bytes (for a domain the length byte L and the L bytes
\* of the name, 7 + L bytes in all) and the port, for every address.
Socks5SuccessComplete ==
    \A i \in RepliesOf("success") :
        req.ver = "V5" =>
            /\ replies[i].bytes
                   = <<5, 0, 0, AType_code(req.a_type)>> \o AddrBytes(req)
                         \o U16ToBytes(req.dst_port)
            /\ req.a_type = "Domain" =>
                   Len(replies[i].bytes) = 7 + Len(req.dst_domain.v)

\* C13: the failure reply written once a Request has been parsed has the
\* form of the request's dialect: SOCKS4 exactly 0x00, code and six zero
\* bytes with code 0x5b or 0x5c; SOCKS5 exactly 0x05, code, 0x00, 0x01 and
\* six zero bytes; HTTP the line "HTTP/1.1 400 Connection Failed" and an
\* empty line.
FailureReplyForms ==
    \A i \in RepliesOf("error") :
        req # NoRequest =>
            CASE req.ver = "V4" ->
                   \E code \in {91, 92} :
                       replies[i].bytes = <<0, code, 0, 0, 0, 0, 0, 0>>
              [] req.ver = "V5" ->
                   \E code \in 1..8 :
                       replies[i].bytes = <<5, code, 0, 1, 0, 0, 0, 0, 0, 0>>
              [] OTHER -> replies[i].bytes = HttpFailed

\* a refused dial of a SOCKS4 request answered with 0x5b, and nothing else
\* written to the client
FailureReplyFormsWitness ==
    /\ req.ver = "V4" /\ failure = IoErr("ConnectionRefused")
    /\ replies = << Written("error", <<0, 91, 0, 0, 0, 0, 0, 0>>) >>
    /\ cout = <<0, 91, 0, 0, 0, 0, 0, 0>>

\* the reply codes of protocol.rs ReplyCmd
ReplyCmds ==
    { "Successful", "ServerError", "RulesNotAllowed", "NetworkUnreachable",
      "HostUnreachable", "ConnectionRefused", "TtlExpired", "CmdTypeUnsupported",
      "AddrTypeUnsupported" }

\* C14: the error-to-code mapping is total.  The code byte of every error
\* reply in SOCKS form is the code of the error that ended the request:
\* 7 for AddrTypeUnsupported and UnknownCmd, 5 for an I/O error of kind
\* ConnectionRefused or ConnectionReset, 1 for every other error; SOCKS5
\* carries the code itself, SOCKS4 carries 91 for ConnectionRefused and 92
\* for the rest.  Every reply code has a wire byte: on SOCKS4 90, 91 or 92,
\* on SOCKS5 its own number 0..8.
ErrorCodeMapping ==
    LET Code(err) ==
            IF err.kind \in {"AddrTypeUnsupported", "UnknownCmd"} THEN 7
            ELSE IF err.kind = "IoErr"
                    /\ err.msg \in {"ConnectionRefused", "ConnectionReset"}
            THEN 5
            ELSE 1
        Socks4(code) == IF code = 0 THEN 90 ELSE IF code = 5 THEN 91 ELSE 92
    IN  /\ \A i \in RepliesOf("error") :
              /\ replyVer = "V5" => replies[i].bytes[2] = Code(failure)
              /\ replyVer = "V4" => replies[i].bytes[2] = Socks4(Code(failure))
        /\ failure # NoErr => ReplyCmd_code(get_cmd_by_err(failure)) = Code(failure)
        /\ \A cmd \in ReplyCmds :
              /\ as_u8(cmd, "V5") = ReplyCmd_code(cmd) /\ ReplyCmd_code(cmd) \in 0..8
              /\ as_u8(cmd, "V4") = Socks4(ReplyCmd_code(cmd))

\* a read from the client that failed with ConnectionReset, answered with
\* code 5
ErrorCodeMappingWitness ==
    /\ failure = IoErr("ConnectionReset")
    /\ replies # <<>>
    /\ replies[Len(replies)] = Written("error", <<5, 5, 0, 1, 0, 0, 0, 0, 0, 0>>)

\* the request was refused by the parser, not lost to a failed read
ParseFailure ==
    /\ req = NoRequest
    /\ failure.kind \notin {"Ok", "IoErr"}
    /\ failure # ReadTimeout

\* C15: a parse failure is answered in the dialect the client spoke.  When
\* the stream starts with 'C' and the HTTP CONNECT framing is violated the
\* client receives the line "HTTP/1.1 400 Connection Failed"; when it
\* starts with 0x04 and the frame is refused the client receives the 8-byte
\* SOCKS4 failure reply.
ParseFailureDialect ==
    \A i \in RepliesOf("error") :
        ParseFailure /\ buffer # <<>> =>
            /\ buffer[1] = 67 => replies[i].bytes = HttpFailed
            /\ buffer[1] = 4 =>
                   \E code \in {91, 92} :
                       replies[i].bytes = <<0, code, 0, 0, 0, 0, 0, 0>>

\* the first byte of the connection has been read and is none of 0x04,
\* 0x05, 'C'
BadFirstByte == buffer # <<>> /\ sent[1] \notin {4, 5, 67}

\* C16: an unsupported first byte.  When the first byte b of a connection
\* is none of 0x04, 0x05, 'C', parsing fails with VnUnsupported(b), in
\* either role; one error reply in SOCKS5 form, 0x05 0x01 0x00 0x01 and six
\* zero bytes, is written, the connection ends with that error, and no
\* rule is looked up and no outbound connection opened.
UnsupportedFirstByte ==
    BadFirstByte =>
        /\ pc \in {"parse", "frame", "done"}
        /\ pc = "frame" => frame.err = VnUnsupported(buffer[1]) /\ replies = <<>>
        /\ pc = "done" =>
              /\ failure = VnUnsupported(buffer[1])
              /\ result = "Err"
              /\ replies = << Written("error", <<5, 1, 0, 1, 0, 0, 0, 0, 0, 0>>) >>
              /\ cout = <<5, 1, 0, 1, 0, 0, 0, 0, 0, 0>>
        /\ req = NoRequest /\ ~looked /\ target = NoTarget /\ remote = "" /\ uout = <<>>

\* run_on_server ended on the first byte 0xff with its one reply written
UnsupportedFirstByteWitness ==
    /\ role = "server" /\ BadFirstByte /\ buffer[1] = 255
    /\ pc = "done" /\ result = "Err" /\ Len(replies) = 1

\* C17: BIND and UDP are always refused.  A Request with the command Bind
\* or Udp causes no rule lookup and no outbound connection; the failure
\* reply of the request's dialect with the code ServerError (byte 1 on
\* SOCKS5, byte 92 on SOCKS4) is written and the connection ends without a
\* splice.
BindUdpRejected ==
    req.cmd \in {"Bind", "Udp"} =>
        /\ ~looked /\ target = NoTarget /\ remote = "" /\ uout = <<>>
        /\ ~Spliced
        /\ RepliesOf("success") = {}
        /\ pc \in {"route", "failed", "done"}
        /\ pc # "route" => failure = NotImplemented
        /\ pc # "done" => RepliesOf("error") = {}
        /\ pc = "done" =>
              /\ RepliesOf("error") = {Len(replies)}
              /\ replies[Len(replies)].bytes
                     = IF req.ver = "V5"
                       THEN <<5, 1, 0, 1, 0, 0, 0, 0, 0, 0>>
                       ELSE <<0, 92, 0, 0, 0, 0, 0, 0>>

\* a SOCKS5 BIND sent after the greeting, answered 05 00 and then refused
BindUdpRejectedWitness ==
    /\ role = "client" /\ req.ver = "V5" /\ req.cmd = "Bind"
    /\ pc = "done"
    /\ replies = << Written("auth", <<5, 0>>),
                    Written("error", <<5, 1, 0, 1, 0, 0, 0, 0, 0, 0>>) >>

\* what run does with an auth frame, as one step
AuthAnswered ==
    /\ replies' = Append(replies, Written("auth", <<5, 0>>))
    /\ cout' = cout \o <<5, 0>>
    /\ authorized' = TRUE
    /\ pc' = "parse" /\ buffer' = <<>>

\* C18: SOCKS5 auth negotiation in the client role.  Every auth frame,
\* whatever its method list, is answered with exactly 0x05 0x00, sets
\* authorized and sends the connection back to the parser, where a frame
\* that starts with 0x05 is from then on parsed as a request.  The auth
\* reply comes before every other reply and there is at most one.
AuthNegotiation ==
    /\ [](\A i \in RepliesOf("auth") : i = 1 /\ replies[i].bytes = <<5, 0>>)
    /\ [](role = "client" => (authorized <=> RepliesOf("auth") # {}))
    /\ [](authorized /\ pc = "frame" => frame.kind # "Auth")
    /\ [](authorized /\ pc = "frame" /\ frame.err = NoErr /\ buffer # <<>> /\ buffer[1] = 5
              => frame.kind = "Req" /\ frame.req.ver = "V5")
    /\ [][pc = "frame" /\ frame.kind = "Auth" => role = "client" /\ AuthAnswered]_vars

\* a greeting that offers two methods was answered and the request that
\* followed it was parsed
AuthNegotiationWitness ==
    /\ role = "client" /\ IsPrefix(<<5, 2, 0, 2>>, sent)
    /\ replies = << Written("auth", <<5, 0>>) >>
    /\ authorized /\ pc = "frame" /\ frame.kind = "Req" /\ buffer[1] = 5

\* C19: SOCKS5 IPv6 requests parse.  The 22 bytes 0x05, cmd, rsv, 0x04, 16
\* address bytes and 2 port bytes, with nothing after them, parse on an
\* authorized connection to a Request with the address type Ipv6, the
\* address read big-endian from the 16 bytes and the big-endian port.
Ipv6RequestParses ==
    /\ authorized /\ sent \in V5Frames({1, 2, 3}, {V6Addr})
    /\ buffer = sent /\ pc \in {"read", "frame"}
    => /\ parsed.kind = "Req"
       /\ parsed.req.a_type = "Ipv6"
       /\ parsed.req.dst_addr = SomeV6(WideFromBytes(SubSeq(sent, 5, 20)))
       /\ parsed.req.dst_port = U16FromBytes(sent[21], sent[22])

\* C20: the verdict Reject.  When the rules give Reject for the
\* destination of a CONNECT, no outbound connection is opened, neither to
\* the destination nor to the remote proxy; the request fails, an error
\* reply is sent to the client and the connection ends.
RejectVerdict ==
    looked /\ verdict = "Reject" /\ req.cmd = "Connect" =>
        /\ target = NoTarget /\ remote = "" /\ uout = <<>>
        /\ ~Spliced
        /\ RepliesOf("success") = {}
        /\ pc \in {"failed", "done"}
        /\ pc = "failed" => failure # NoErr
        /\ pc = "done" => RepliesOf("error") = {Len(replies)}

(***************************************************************************)
(* rule.rs: the rule store.  A rule file is a list of records              *)
(* "KIND,content,VERDICT"; initial() sorts them into five maps, and        *)
(* domain() and ip() classify a destination against the maps.  A HashMap   *)
(* is the sequence of its entries in the order its iterator yields them.   *)
(***************************************************************************)
\* "DOMAIN"
KindDomain == <<68, 79, 77, 65, 73, 78>>

\* "DOMAIN-SUFFIX"
KindDomainSuffix == <<68, 79, 77, 65, 73, 78, 45, 83, 85, 70, 70, 73, 88>>

\* "DOMAIN-KEYWORD"
KindDomainKeyword == <<68, 79, 77, 65, 73, 78, 45, 75, 69, 89, 87, 79, 82, 68>>

\* "IP-CIDR"
KindIpCidr == <<73, 80, 45, 67, 73, 68, 82>>

\* "IP-CIDR6"
KindIpCidr6 == <<73, 80, 45, 67, 73, 68, 82, 54>>

\* "DIRECT"
TokDirect == <<68, 73, 82, 69, 67, 84>>

\* "PROXY"
TokProxy == <<80, 82, 79, 88, 89>>

\* "REJECT"
TokReject == <<82, 69, 74, 69, 67, 84>>

\* "_"
Underscore == <<95>>

Routing_try_from_lenient(value) ==
    CASE value = TokDirect -> [ok |-> TRUE, v |-> "Direct"]
      [] value = TokReject -> [ok |-> TRUE, v |-> "Reject"]
      [] OTHER -> [ok |-> TRUE, v |-> "Proxy"]

\* Routing::try_from
Routing_try_from(value) ==
    CASE value = TokDirect -> [ok |-> TRUE, v |-> "Direct"]
      [] value = TokProxy -> [ok |-> TRUE, v |-> "Proxy"]
      [] value = TokReject -> [ok |-> TRUE, v |-> "Reject"]
      [] OTHER -> [ok |-> FALSE, v |-> ""]

\* the bits of an address of each family
FamBits(fam) == IF fam = "V4" THEN 32 ELSE 128

\* IpNetwork::from_str: "addr" or "addr/prefix", the address IPv4 or IPv6,
\* the prefix a decimal number of at most the family's bit count.  The IPv6
\* forms read here are "::" and "::h".
IpNetwork_from_str(content) ==
    Bind(split(content, 47), LAMBDA parts :
    Bind(url_ipv4(split(parts[1], 46)), LAMBDA v4 :
    Bind(url_ipv6(parts[1]), LAMBDA v6 :
    Bind(IF v4.ok THEN "V4" ELSE "V6", LAMBDA fam :
        IF Len(parts) > 2 \/ ~(v4.ok \/ v6.ok) THEN [ok |-> FALSE, net |-> <<>>]
        ELSE IF Len(parts) = 1
        THEN [ok |-> TRUE,
              net |-> [fam |-> fam, v |-> IF v4.ok THEN v4.v ELSE v6.v,
                       prefix |-> FamBits(fam)]]
        ELSE IF IsDigits(parts[2]) /\ Len(parts[2]) <= 3
                /\ DecVal(parts[2]) <= FamBits(fam)
        THEN [ok |-> TRUE,
              net |-> [fam |-> fam, v |-> IF v4.ok THEN v4.v ELSE v6.v,
                       prefix |-> DecVal(parts[2])]]
        ELSE [ok |-> FALSE, net |-> <<>>]))))

\* HashMap::get
HashMap_get(map, k) ==
    LET hits == {i \in 1..Len(map) : map[i].k = k}
    IN  IF hits = {} THEN [some |-> FALSE, v |-> ""]
        ELSE [some |-> TRUE, v |-> map[CHOOSE i \in hits : TRUE].v]

\* HashMap::insert: the value of a key the map holds is replaced; a new key
\* gets a place in the iteration order that the hasher decides, here at.
HashMap_insert(map, k, v, at) ==
    IF HashMap_get(map, k).some
    THEN [i \in 1..Len(map) |-> IF map[i].k = k THEN [k |-> k, v |-> v] ELSE map[i]]
    ELSE SubSeq(map, 1, at - 1) \o << [k |-> k, v |-> v] >> \o SubSeq(map, at, Len(map))

\* the lazy_static maps, empty
EmptyStore ==
    [domain_set |-> <<>>, domain_suffix_set |-> <<>>, domain_keyword_set |-> <<>>,
     ip_cidr |-> <<>>, ip_cidr6 |-> <<>>]

MapNames == DOMAIN EmptyStore

\* split_iter.next().unwrap_or("_")
field(fields, i) == IF i <= Len(fields) THEN fields[i] ELSE Underscore

\* which map a record of this kind goes to; "" for an unknown kind
map_of_kind(kind) ==
    CASE kind = KindDomain -> "domain_set"
      [] kind = KindDomainSuffix -> "domain_suffix_set"
      [] kind = KindDomainKeyword -> "domain_keyword_set"
      [] kind = KindIpCidr -> "ip_cidr"
      [] kind = KindIpCidr6 -> "ip_cidr6"
      [] OTHER -> ""

\* the key a record's content gives in that map
key_of(map, content) ==
    IF map \in {"ip_cidr", "ip_cidr6"}
    THEN IpNetwork_from_str(content)
    ELSE [ok |-> TRUE, net |-> content]

\*   DOMAIN,google.com,DIRECT
\*   DOMAIN-SUFFIX,google.com,PROXY
\*   DOMAIN-SUFFIX,le.com,REJECT
\*   DOMAIN-KEYWORD,oogle,DIRECT
RulesPriority ==
    << <<68, 79, 77, 65, 73, 78, 44, 103, 111, 111, 103, 108, 101, 46, 99, 111, 109, 44, 68, 73, 82, 69, 67, 84>>,
       <<68, 79, 77, 65, 73, 78, 45, 83, 85, 70, 70, 73, 88, 44, 103, 111, 111, 103, 108, 101, 46, 99, 111, 109, 44, 80, 82, 79, 88, 89>>,
       <<68, 79, 77, 65, 73, 78, 45, 83, 85, 70, 70, 73, 88, 44, 108, 101, 46, 99, 111, 109, 44, 82, 69, 74, 69, 67, 84>>,
       <<68, 79, 77, 65, 73, 78, 45, 75, 69, 89, 87, 79, 82, 68, 44, 111, 111, 103, 108, 101, 44, 68, 73, 82, 69, 67, 84>> >>

\*   IP-CIDR,192.168.0.0/16,DIRECT
\*   GEOIP,CN,DIRECT
\*   IP-CIDR6,::/127,REJECT
\*   IP-CIDR,::/127,PROXY
RulesCidr ==
    << <<73, 80, 45, 67, 73, 68, 82, 44, 49, 57, 50, 46, 49, 54, 56, 46, 48, 46, 48, 47, 49, 54, 44, 68, 73, 82, 69, 67, 84>>,
       <<71, 69, 79, 73, 80, 44, 67, 78, 44, 68, 73, 82, 69, 67, 84>>,
       <<73, 80, 45, 67, 73, 68, 82, 54, 44, 58, 58, 47, 49, 50, 55, 44, 82, 69, 74, 69, 67, 84>>,
       <<73, 80, 45, 67, 73, 68, 82, 44, 58, 58, 47, 49, 50, 55, 44, 80, 82, 79, 88, 89>> >>

\*   DOMAIN,a.cc,DIRECT
\*   DOMAIN-SUFFIX,cc,ALLOW
\*   DOMAIN,b.cc,PROXY
RulesBadVerdict ==
    << <<68, 79, 77, 65, 73, 78, 44, 97, 46, 99, 99, 44, 68, 73, 82, 69, 67, 84>>,
       <<68, 79, 77, 65, 73, 78, 45, 83, 85, 70, 70, 73, 88, 44, 99, 99, 44, 65, 76, 76, 79, 87>>,
       <<68, 79, 77, 65, 73, 78, 44, 98, 46, 99, 99, 44, 80, 82, 79, 88, 89>> >>

\*   FINAL,,BLOCK
\*   DOMAIN,a.cc,PROXY,x
\*   MATCH
\*   DOMAIN-KEYWORD,cc,REJECT
RulesUnknownKind ==
    << <<70, 73, 78, 65, 76, 44, 44, 66, 76, 79, 67, 75>>,
       <<68, 79, 77, 65, 73, 78, 44, 97, 46, 99, 99, 44, 80, 82, 79, 88, 89, 44, 120>>,
       <<77, 65, 84, 67, 72>>,
       <<68, 79, 77, 65, 73, 78, 45, 75, 69, 89, 87, 79, 82, 68, 44, 99, 99, 44, 82, 69, 74, 69, 67, 84>> >>

\*   IP-CIDR,10.0.0.0/8,PROXY
\*   IP-CIDR,300.0.0.0/8,DIRECT
RulesBadCidr ==
    << <<73, 80, 45, 67, 73, 68, 82, 44, 49, 48, 46, 48, 46, 48, 46, 48, 47, 56, 44, 80, 82, 79, 88, 89>>,
       <<73, 80, 45, 67, 73, 68, 82, 44, 51, 48, 48, 46, 48, 46, 48, 46, 48, 47, 56, 44, 68, 73, 82, 69, 67, 84>> >>

\*   DOMAIN-SUFFIX,com,DIRECT
\*   DOMAIN,a.cc
RulesShort ==
    << <<68, 79, 77, 65, 73, 78, 45, 83, 85, 70, 70, 73, 88, 44, 99, 111, 109, 44, 68, 73, 82, 69, 67, 84>>,
       <<68, 79, 77, 65, 73, 78, 44, 97, 46, 99, 99>> >>

RuleFiles == { <<>>, RulesPriority, RulesCidr, RulesBadVerdict, RulesUnknownKind, RulesBadCidr, RulesShort }

\* for part in parts.rev(): parts holds the labels not yet visited, segment
\* what the earlier turns have built
RECURSIVE ends_with_loop(_, _, _)
ends_with_loop(parts, segment, suffix) ==
    IF parts = <<>> THEN FALSE
    ELSE IF parts[Len(parts)] \o segment = suffix THEN TRUE
    ELSE ends_with_loop(SubSeq(parts, 1, Len(parts) - 1),
                        <<46>> \o parts[Len(parts)] \o segment, suffix)

\* str::ends_with
domain_ends_with_str(domain, suffix) ==
    Len(suffix) <= Len(domain)
    /\ SubSeq(domain, Len(domain) - Len(suffix) + 1, Len(domain)) = suffix

domain_ends_with(domain, suffix) == ends_with_loop(split(domain, 46), <<>>, suffix)

\* str::contains
contains(s, keyword) ==
    \E i \in 0..(Len(s) - Len(keyword)) : SubSeq(s, i + 1, i + Len(keyword)) = keyword

\* the first entry, in iteration order, of the entries at the places hits
first_of(map, hits) ==
    IF hits = {} THEN [some |-> FALSE, v |-> ""]
    ELSE [some |-> TRUE, v |-> map[CHOOSE i \in hits : \A j \in hits : i <= j].v]

suffix_match(map, domain) ==
    first_of(map, {i \in 1..Len(map) : domain_ends_with(domain, map[i].k)})

keyword_match(map, domain) ==
    first_of(map, {i \in 1..Len(map) : contains(domain, map[i].k)})

Matched(by, m) == [some |-> m.some, v |-> m.v, by |-> IF m.some THEN by ELSE ""]

domain_rules_keyword_first(st, domain) ==
    IF keyword_match(st.domain_keyword_set, domain).some
    THEN Matched("keyword", keyword_match(st.domain_keyword_set, domain))
    ELSE IF HashMap_get(st.domain_set, domain).some
    THEN Matched("exact", HashMap_get(st.domain_set, domain))
    ELSE Matched("suffix", suffix_match(st.domain_suffix_set, domain))

\* rule::domain up to the host lookup: the exact rules, then the suffix
\* rules, then the keyword rules
domain_rules(st, domain) ==
    IF HashMap_get(st.domain_set, domain).some
    THEN Matched("exact", HashMap_get(st.domain_set, domain))
    ELSE IF suffix_match(st.domain_suffix_set, domain).some
    THEN Matched("suffix", suffix_match(st.domain_suffix_set, domain))
    ELSE Matched("keyword", keyword_match(st.domain_keyword_set, domain))

\* bit i of an address held in 16-bit digits, the most significant first
Bit(v, i) == (v[(i \div 16) + 1] \div (2 ^ (15 - (i % 16)))) % 2

\* IpNetwork::contains: an address of the network's family whose first
\* prefix bits are the network's
cidr_contains(net, ip) ==
    net.fam = ip.fam /\ \A i \in 0..(net.prefix - 1) : Bit(net.v, i) = Bit(ip.v, i)

\* what maxminddb's lookup may answer: an error, a record without country,
\* a country without ISO code, or a country with its ISO code
GeoErr == [ok |-> FALSE, country |-> FALSE, iso_code |-> NoneStr]

GeoNoCountry == [ok |-> TRUE, country |-> FALSE, iso_code |-> NoneStr]

GeoCountry(iso_code) == [ok |-> TRUE, country |-> TRUE, iso_code |-> iso_code]

\* "CN", "US"
GeoAnswers ==
    { GeoErr, GeoNoCountry, GeoCountry(NoneStr), GeoCountry(SomeStr(<<67, 78>>)),
      GeoCountry(SomeStr(<<85, 83>>)) }

\* the lookup was not made
NoGeo == [ok |-> FALSE, country |-> FALSE, iso_code |-> SomeStr(<<>>)]

\* c.iso_code.unwrap_or("_") == "CN"
is_cn(geo) ==
    geo.ok /\ geo.country
    /\ (IF geo.iso_code.some THEN geo.iso_code.v ELSE Underscore) = <<67, 78>>

cidr_ip_list_v4(st, ip) == st.ip_cidr

\* the map ip() walks: ip_cidr for an IPv4 address, ip_cidr6 for IPv6
cidr_ip_list(st, ip) == IF ip.fam = "V4" THEN st.ip_cidr ELSE st.ip_cidr6

cidr_match(st, ip) ==
    first_of(cidr_ip_list(st, ip),
             {i \in 1..Len(cidr_ip_list(st, ip)) :
                 cidr_contains(cidr_ip_list(st, ip)[i].k, ip)})

\* rule::ip
rule_ip(st, ip, geo) ==
    IF cidr_match(st, ip).some THEN cidr_match(st, ip).v
    ELSE IF is_cn(geo) THEN "Direct"
    ELSE "Proxy"

(***************************************************************************)
(* The rule store at work: initial() reads the rule file record by record, *)
(* then the connections of the process put their questions, one question   *)
(* each, at their own pace.                                                *)
(***************************************************************************)
\* the connections that ask
Callers == {"c1", "c2"}

\*   google.com
\*   foo.google.com
\*   evil-google.com
\*   le.com
\*   a.cc
\*   b.cc
\*   x.cn
QueryDomains ==
    { <<103, 111, 111, 103, 108, 101, 46, 99, 111, 109>>,
      <<102, 111, 111, 46, 103, 111, 111, 103, 108, 101, 46, 99, 111, 109>>,
      <<101, 118, 105, 108, 45, 103, 111, 111, 103, 108, 101, 46, 99, 111, 109>>,
      <<108, 101, 46, 99, 111, 109>>,
      <<97, 46, 99, 99>>,
      <<98, 46, 99, 99>>,
      <<120, 46, 99, 110>> }

\* 192.168.1.1, 8.8.8.8, ::1, ::2
QueryIps ==
    { SomeV4(<<49320, 257>>), SomeV4(<<2056, 2056>>),
      SomeV6(<<0, 0, 0, 0, 0, 0, 0, 1>>), SomeV6(<<0, 0, 0, 0, 0, 0, 0, 2>>) }

\* what lookup_host may answer: an error, no address, or addresses
DnsErr == [ok |-> FALSE, addrs |-> <<>>]

DnsOk(addrs) == [ok |-> TRUE, addrs |-> addrs]

DnsAnswers ==
    { DnsErr, DnsOk(<<>>),
      DnsOk(<< SomeV4(<<49320, 257>>), SomeV4(<<2056, 2056>>) >>),
      DnsOk(<< SomeV4(<<2056, 2056>>) >>),
      DnsOk(<< SomeV6(<<0, 0, 0, 0, 0, 0, 0, 1>>), SomeV4(<<49320, 257>>) >>) }

\* the host lookup was not made
NoDns == [ok |-> FALSE, addrs |-> << <<>> >>]

Idle == [st |-> "idle", fn |-> "", arg |-> <<>>, by |-> "", dns |-> NoDns, geo |-> NoGeo,
         ok |-> FALSE, ret |-> ""]

Asked(st, fn, arg, by, dns, geo, ok, ret) ==
    [st |-> st, fn |-> fn, arg |-> arg, by |-> by, dns |-> dns, geo |-> geo,
     ok |-> ok, ret |-> ret]

\* the value a query leaves the store with
after_query_cleared(st) == EmptyStore

after_query(st) == st

processAtRest == listener = "" /\ conns = <<>> /\ call = <<>>

InitRules ==
    /\ rule_yaml \in RuleFiles
    /\ store = EmptyStore
    /\ loaded = "loading"
    /\ query = [c \in Callers |-> Idle]
    /\ processAtRest
    /\ role = "client" /\ tls = FALSE /\ sent = <<>> /\ cin = <<>>
    /\ cClose = FALSE /\ rin = <<>> /\ rClose = FALSE /\ authorized = FALSE
    /\ InitConn

connAtRest ==
    UNCHANGED << role, tls, sent, cClose, rClose, cin, rin, authorized, buffer, parsed,
                 frame, pc, reads, looked, connVars, call >>

\* one turn of initial()'s loop.  A record of an unknown kind is passed
\* over; a content that is no network or a verdict that is no Routing ends
\* initial() with the error.
LoadRecord ==
    /\ loaded = "loading" /\ rule_yaml # <<>>
    /\ LET fields == split(Head(rule_yaml), 44)
           map == map_of_kind(field(fields, 1))
           key == key_of(map, field(fields, 2))
           routing == Routing_try_from(field(fields, 3))
       IN  IF map = ""
           THEN /\ store' = store /\ loaded' = loaded /\ rule_yaml' = Tail(rule_yaml)
           ELSE IF ~key.ok \/ ~routing.ok
           THEN /\ store' = store /\ loaded' = "Err" /\ rule_yaml' = rule_yaml
           ELSE /\ \E at \in 1..(Len(store[map]) + 1) :
                      store' = [store EXCEPT ![map] = HashMap_insert(@, key.net, routing.v, at)]
                /\ loaded' = loaded /\ rule_yaml' = Tail(rule_yaml)
    /\ UNCHANGED << query, listener, conns >>
    /\ connAtRest

\* the loop is through: Ok(())
InitialReturn ==
    /\ loaded = "loading" /\ rule_yaml = <<>>
    /\ loaded' = "Ok"
    /\ UNCHANGED << rule_yaml, store, query, listener, conns >>
    /\ connAtRest

\* rule::ip(ip), called by a connection
QueryIp(c) ==
    /\ loaded \in {"Ok", "Err"} /\ query[c].st = "idle"
    /\ \E ip \in QueryIps, geo \in GeoAnswers :
          query' = [query EXCEPT ![c] =
                       Asked("done", "ip", ip, IF cidr_match(store, ip).some THEN "cidr" ELSE "geo",
                             NoDns, IF cidr_match(store, ip).some THEN NoGeo ELSE geo,
                             TRUE, rule_ip(store, ip, geo))]
    /\ store' = after_query(store)
    /\ UNCHANGED << rule_yaml, loaded, listener, conns >>
    /\ connAtRest

\* rule::domain(domain) up to its await: a rule decides, or the host lookup
\* is started
QueryDomain(c) ==
    /\ loaded \in {"Ok", "Err"} /\ query[c].st = "idle"
    /\ \E domain \in QueryDomains :
          LET m == domain_rules(store, domain)
          IN  query' = [query EXCEPT ![c] =
                           IF m.some
                           THEN Asked("done", "domain", domain, m.by, NoDns, NoGeo, TRUE, m.v)
                           ELSE Asked("dns", "domain", domain, "", NoDns, NoGeo, FALSE, "")]
    /\ store' = after_query(store)
    /\ UNCHANGED << rule_yaml, loaded, listener, conns >>
    /\ connAtRest

\* lookup_host(..).await? and what follows it: the error of a failed lookup
\* is returned; the first address goes to ip(); no address gives Proxy
resolved(st, arg, dns, geo) ==
    IF ~dns.ok THEN Asked("done", "domain", arg, "dns", dns, NoGeo, FALSE, "IoErr")
    ELSE IF dns.addrs # <<>>
    THEN Asked("done", "domain", arg, "dns", dns,
               IF cidr_match(st, dns.addrs[1]).some THEN NoGeo ELSE geo,
               TRUE, rule_ip(st, dns.addrs[1], geo))
    ELSE Asked("done", "domain", arg, "dns", dns, NoGeo, TRUE, "Proxy")

Resolved(c) ==
    /\ query[c].st = "dns"
    /\ \E dns \in DnsAnswers, geo \in GeoAnswers :
          query' = [query EXCEPT ![c] = resolved(store, query[c].arg, dns, geo)]
    /\ store' = after_query(store)
    /\ UNCHANGED << rule_yaml, loaded, listener, conns >>
    /\ connAtRest

NextRules ==
    \/ LoadRecord \/ InitialReturn
    \/ \E c \in Callers : QueryIp(c) \/ QueryDomain(c) \/ Resolved(c)

SpecRules == InitRules /\ [][NextRules]_vars

\* the keys of a map
Keys(map) == { map[i].k : i \in 1..Len(map) }

\* C21: suffix matching respects label boundaries.  A domain d matches a
\* suffix pattern s exactly when d = s or d ends with "." followed by s; so
\* "google.com" and "foo.google.com" match the suffix "google.com",
\* "evil-google.com" does not, and no name that ends in "google.com"
\* matches the suffix "le.com".  A verdict given by a suffix rule is the
\* verdict of a rule whose pattern matches in that sense.
SuffixLabelBoundaries ==
    LET EndsWith(d, t) ==
            Len(t) <= Len(d) /\ SubSeq(d, Len(d) - Len(t) + 1, Len(d)) = t
        Matches(d, s) == d = s \/ EndsWith(d, <<46>> \o s)
    IN  \A c \in Callers :
            query[c].fn = "domain" =>
                /\ \A s \in Keys(store.domain_suffix_set) \cup QueryDomains :
                      domain_ends_with(query[c].arg, s) <=> Matches(query[c].arg, s)
                /\ query[c].by = "suffix" =>
                      \E i \in 1..Len(store.domain_suffix_set) :
                          /\ Matches(query[c].arg, store.domain_suffix_set[i].k)
                          /\ query[c].ret = store.domain_suffix_set[i].v

\* "foo.google.com" was decided by the suffix rule for "google.com", and
\* "evil-google.com" by no suffix rule
SuffixLabelBoundariesWitness ==
    /\ query["c1"].fn = "domain" /\ query["c2"].fn = "domain"
    /\ query["c1"].arg = <<102, 111, 111, 46, 103, 111, 111, 103, 108, 101, 46, 99, 111, 109>> /\ query["c1"].by = "suffix"
    /\ query["c1"].ret = "Proxy"
    /\ query["c2"].arg = <<101, 118, 105, 108, 45, 103, 111, 111, 103, 108, 101, 46, 99, 111, 109>> /\ query["c2"].by = "keyword"

\* C22: first match wins in rule::domain.  An exact rule for the domain
\* decides even when a suffix or a keyword rule matches as well; a matching
\* suffix rule decides even when a keyword rule matches as well; the host
\* lookup and the classification of its address are used only when no
\* exact, suffix or keyword rule matches.
FirstMatchWins ==
    \A c \in Callers :
        query[c].fn = "domain" =>
            LET d == query[c].arg
                exact == {i \in 1..Len(store.domain_set) : store.domain_set[i].k = d}
                suffix == {i \in 1..Len(store.domain_suffix_set) :
                              domain_ends_with(d, store.domain_suffix_set[i].k)}
                keyword == {i \in 1..Len(store.domain_keyword_set) :
                               contains(d, store.domain_keyword_set[i].k)}
            IN  /\ exact # {} =>
                      /\ query[c].by = "exact"
                      /\ \E i \in exact : query[c].ret = store.domain_set[i].v
                /\ exact = {} /\ suffix # {} =>
                      /\ query[c].by = "suffix"
                      /\ \E i \in suffix : query[c].ret = store.domain_suffix_set[i].v
                /\ exact = {} /\ suffix = {} /\ keyword # {} =>
                      /\ query[c].by = "keyword"
                      /\ \E i \in keyword : query[c].ret = store.domain_keyword_set[i].v
                /\ (query[c].st = "dns" \/ query[c].by = "dns")
                       <=> exact = {} /\ suffix = {} /\ keyword = {}
                /\ query[c].by \in {"exact", "suffix", "keyword"} =>
                       query[c].st = "done" /\ query[c].dns = NoDns /\ query[c].geo = NoGeo

\* "google.com" has an exact, a suffix and a keyword rule and got the
\* verdict of the exact one; "foo.google.com" has a suffix and a keyword
\* rule and got the verdict of the suffix one
FirstMatchWinsWitness ==
    /\ query["c1"].fn = "domain" /\ query["c2"].fn = "domain"
    /\ query["c1"].arg = <<103, 111, 111, 103, 108, 101, 46, 99, 111, 109>>
    /\ HashMap_get(store.domain_suffix_set, <<103, 111, 111, 103, 108, 101, 46, 99, 111, 109>>).some
    /\ contains(<<103, 111, 111, 103, 108, 101, 46, 99, 111, 109>>, <<111, 111, 103, 108, 101>>)
    /\ query["c1"].by = "exact" /\ query["c1"].ret = "Direct"
    /\ query["c2"].arg = <<102, 111, 111, 46, 103, 111, 111, 103, 108, 101, 46, 99, 111, 109>>
    /\ query["c2"].by = "suffix" /\ query["c2"].ret = "Proxy"

\* C23: rule::ip.  If a network in the map of the address's family
\* (ip_cidr for IPv4, ip_cidr6 for IPv6) contains the address, the verdict
\* is that of such a rule.  Otherwise it is Direct exactly when the GeoIP
\* lookup succeeds with a country whose ISO code is "CN", and Proxy in
\* every other case: a failed lookup, no country, no ISO code, another code.
ClassifyIp ==
    \A c \in Callers :
        query[c].fn = "ip" =>
            LET ip == query[c].arg
                family == IF ip.fam = "V4" THEN store.ip_cidr ELSE store.ip_cidr6
                holds == {i \in 1..Len(family) : cidr_contains(family[i].k, ip)}
                cn == /\ query[c].geo.ok /\ query[c].geo.country
                      /\ query[c].geo.iso_code = SomeStr(<<67, 78>>)
            IN  /\ holds # {} =>
                      /\ query[c].by = "cidr"
                      /\ \E i \in holds : query[c].ret = family[i].v
                /\ holds = {} =>
                      /\ query[c].by = "geo" /\ query[c].geo \in GeoAnswers
                      /\ query[c].ret = IF cn THEN "Direct" ELSE "Proxy"

\* ::1 lies in ::/127, which ip_cidr gives Proxy and ip_cidr6 gives Reject;
\* 8.8.8.8 lies in no network and its GeoIP lookup failed
ClassifyIpWitness ==
    /\ query["c1"].fn = "ip" /\ query["c2"].fn = "ip"
    /\ query["c1"].arg = SomeV6(<<0, 0, 0, 0, 0, 0, 0, 1>>)
    /\ Len(store.ip_cidr) = 2 /\ Len(store.ip_cidr6) = 1
    /\ query["c1"].ret = "Reject"
    /\ query["c2"].arg = SomeV4(<<2056, 2056>>)
    /\ query["c2"].geo = GeoErr /\ query["c2"].ret = "Proxy"

\* C24: the fall-through of rule::domain.  When no exact, suffix or keyword
\* rule matches the domain, the verdict is that of rule::ip for the first
\* address the resolution of the domain returns; when the resolution
\* yields no address the verdict is Proxy.
DomainFallthrough ==
    \A c \in Callers :
        query[c].fn = "domain" /\ query[c].st = "done" /\ query[c].by = "dns" =>
            /\ query[c].ok
            /\ query[c].ret
                   = IF query[c].dns.ok /\ query[c].dns.addrs # <<>>
                     THEN rule_ip(store, query[c].dns.addrs[1], query[c].geo)
                     ELSE "Proxy"

\* C25: rule loading.  A record whose kind is none of DOMAIN,
\* DOMAIN-SUFFIX, DOMAIN-KEYWORD, IP-CIDR, IP-CIDR6 is passed over: no
\* error, no map changed, the next record is read.  A record of one of
\* these kinds whose verdict token is not DIRECT, PROXY or REJECT ends
\* initial() with an error, which is then what initial() has returned.
RuleLoading ==
    /\ [][loaded = "loading" /\ rule_yaml # <<>> =>
             LET Kinds == {KindDomain, KindDomainSuffix, KindDomainKeyword,
                           KindIpCidr, KindIpCidr6}
                 Verdicts == {TokDirect, TokProxy, TokReject}
                 fields == split(Head(rule_yaml), 44)
             IN  /\ fields[1] \notin Kinds =>
                       /\ store' = store /\ loaded' = "loading"
                       /\ rule_yaml' = Tail(rule_yaml)
                 /\ fields[1] \in Kinds
                    /\ (Len(fields) < 3 \/ fields[3] \notin Verdicts) =>
                       store' = store /\ loaded' = "Err"]_vars
    /\ [][loaded = "Err" => loaded' = "Err" /\ store' = store]_vars
    /\ [](loaded = "Ok" => rule_yaml = <<>>)

\* initial() has ended with an error at the record "DOMAIN-SUFFIX,cc,<<68, 79, 77, 65, 73, 78, 45, 83, 85, 70, 70, 73, 88, 44, 99, 99, 44, 65, 76, 76, 79, 87>>",
\* after it put the record before it into domain_set
RuleLoadingWitness ==
    /\ loaded = "Err"
    /\ Head(rule_yaml) = <<68, 79, 77, 65, 73, 78, 45, 83, 85, 70, 70, 73, 88, 44, 99, 99, 44, 65, 76, 76, 79, 87>>
    /\ Len(store.domain_set) = 1 /\ store.domain_suffix_set = <<>>

\* C26: the rule store is read-only once initial() has returned.  No query
\* of any caller, whatever the callers' interleaving, adds, removes or
\* changes an entry of one of the five maps; and two queries with the same
\* argument that got the same DNS and GeoIP answers return the same verdict.
StoreReadOnly ==
    /\ [][(loaded = "Ok" \/ loaded = "Err") =>
             ( /\ \A m \in MapNames : store'[m] = store[m]
               /\ loaded' = loaded /\ rule_yaml' = rule_yaml )]_vars
    /\ [](\A c1, c2 \in Callers :
             /\ query[c1].st = "done" /\ query[c2].st = "done"
             /\ query[c1].fn = query[c2].fn /\ query[c1].arg = query[c2].arg
             /\ query[c1].dns = query[c2].dns /\ query[c1].geo = query[c2].geo
             => query[c1].ok = query[c2].ok /\ query[c1].ret = query[c2].ret)

\* two callers asked for the same domain, which no rule of the loaded maps
\* names, got the same addresses and the same country, and the same verdict
StoreReadOnlyWitness ==
    /\ loaded = "Ok" /\ Len(store.domain_suffix_set) = 2
    /\ query["c1"].st = "done" /\ query["c1"].fn = "domain" /\ query["c1"].by = "dns"
    /\ query["c1"].dns.ok /\ Len(query["c1"].dns.addrs) = 2 /\ query["c1"].geo.ok
    /\ query["c2"].st = "done" /\ query["c2"].fn = "domain"
    /\ query["c2"] = query["c1"]

(***************************************************************************)
(* bin/nexel.rs main, bin/nexeld.rs listen and listen_tls: the accept loop *)
(* and the tasks it spawns.  A connection is followed through the phases   *)
(* of Connection::run / run_on_server: "handshake" (listen_tls only, in    *)
(* the loop itself), "recv", "dial", "splice", "done".                     *)
(***************************************************************************)
\* connections accepted in one run of the model
MaxConns == 3

\* nexel's main, nexeld's listen, nexeld's listen_tls
Listeners == {"main", "listen", "listen_tls"}

Conn(st, ret, why) == [st |-> st, ret |-> ret, why |-> why]

Accepting(fn) == [fn |-> fn, at |-> "accept", ret |-> ""]

\* tokio::spawn(async move { Connection::new(socket, ..).run ..
spawn(cs, i) == [cs EXCEPT ![i] = Conn("recv", "", "")]

\* the task of connection i returns; an Err is logged
conn_ended_all(cs, i, ret, why) == [j \in 1..Len(cs) |-> Conn("done", ret, why)]

conn_ended(cs, i, ret, why) == [cs EXCEPT ![i] = Conn("done", ret, why)]

\* main returns: the runtime is dropped and with it every task still running
runtime_dropped(cs) ==
    [j \in 1..Len(cs) |-> IF cs[j].st = "done" THEN cs[j] ELSE Conn("aborted", "", "")]

rulesAtRest == UNCHANGED << rule_yaml, store, loaded, query >>

InitListener ==
    /\ listener \in {Accepting(fn) : fn \in Listeners}
    /\ conns = <<>> /\ call = <<>>
    /\ rule_yaml = <<>> /\ store = <<>> /\ loaded = "" /\ query = <<>>
    /\ role = "client" /\ tls = FALSE /\ sent = <<>> /\ cin = <<>>
    /\ cClose = FALSE /\ rin = <<>> /\ rClose = FALSE /\ authorized = FALSE
    /\ InitConn

\* let (socket, _) = listener.accept().await?  with Ok: main and listen
\* spawn the connection's task, listen_tls starts the TLS handshake
AcceptOk ==
    /\ listener.at = "accept" /\ Len(conns) < MaxConns
    /\ IF listener.fn = "listen_tls"
       THEN /\ listener' = [listener EXCEPT !.at = "handshake"]
            /\ conns' = Append(conns, Conn("handshake", "", ""))
       ELSE /\ listener' = listener
            /\ conns' = spawn(Append(conns, Conn("", "", "")), Len(conns) + 1)
    /\ rulesAtRest /\ connAtRest

\* let (socket, _) = listener.accept().await?  with Err: the ? returns the
\* error from the loop's function, and main returns it
AcceptFail ==
    /\ listener.at = "accept"
    /\ listener' = [listener EXCEPT !.at = "returned", !.ret = "Err"]
    /\ conns' = runtime_dropped(conns)
    /\ rulesAtRest /\ connAtRest

\* timeout(10 s, tls_acceptor.accept(socket)) is Ok(Ok(socket))
TlsAcceptOk ==
    /\ listener.at = "handshake"
    /\ listener' = [listener EXCEPT !.at = "accept"]
    /\ conns' = spawn(conns, Len(conns))
    /\ rulesAtRest /\ connAtRest

\* Ok(Err(e)): "TLS handshake has an error"
TlsAcceptErr ==
    /\ listener.at = "handshake"
    /\ listener' = [listener EXCEPT !.at = "accept"]
    /\ conns' = conn_ended(conns, Len(conns), "Err", "handshake error")
    /\ rulesAtRest /\ connAtRest

\* Err(e): "TLS handshake time out"
TlsAcceptTimeout ==
    /\ listener.at = "handshake"
    /\ listener' = [listener EXCEPT !.at = "accept"]
    /\ conns' = conn_ended(conns, Len(conns), "Err", "handshake timeout")
    /\ rulesAtRest /\ connAtRest

\* recv_and_parse_req is Err(err): the error is replied and returned
ConnParseErr(i) ==
    /\ conns[i].st = "recv"
    /\ conns' = conn_ended(conns, i, "Err", "parse error")
    /\ UNCHANGED listener /\ rulesAtRest /\ connAtRest

\* recv_and_parse_req is Ok(None): the peer closed before a request
ConnRecvEof(i) ==
    /\ conns[i].st = "recv"
    /\ conns' = conn_ended(conns, i, "Ok", "")
    /\ UNCHANGED listener /\ rulesAtRest /\ connAtRest

\* a request: process() starts process_request
ConnRequest(i) ==
    /\ conns[i].st = "recv"
    /\ conns' = [conns EXCEPT ![i] = Conn("dial", "", "")]
    /\ UNCHANGED listener /\ rulesAtRest /\ connAtRest

\* process_request is Err(e): the error is replied, process returns Ok(());
\* the reply's write failing returns its error
ConnDialFail(i) ==
    /\ conns[i].st = "dial"
    /\ \E ret \in {"Ok", "Err"} : conns' = conn_ended(conns, i, ret, "dial failure")
    /\ UNCHANGED listener /\ rulesAtRest /\ connAtRest

\* process_request is Ok: the success reply or the replay, then connect_two_way
ConnDialOk(i) ==
    /\ conns[i].st = "dial"
    /\ conns' = [conns EXCEPT ![i] = Conn("splice", "", "")]
    /\ UNCHANGED listener /\ rulesAtRest /\ connAtRest

\* connect_two_way ends with both copies at their end of stream
ConnSpliceEnd(i) ==
    /\ conns[i].st = "splice"
    /\ conns' = conn_ended(conns, i, "Ok", "")
    /\ UNCHANGED listener /\ rulesAtRest /\ connAtRest

\* connect_two_way ends with a copy's read or write error, which it drops
ConnSpliceIoErr(i) ==
    /\ conns[i].st = "splice"
    /\ conns' = conn_ended(conns, i, "Ok", "io error")
    /\ UNCHANGED listener /\ rulesAtRest /\ connAtRest

NextListener ==
    \/ AcceptOk \/ AcceptFail
    \/ TlsAcceptOk \/ TlsAcceptErr \/ TlsAcceptTimeout
    \/ \E i \in 1..Len(conns) :
          \/ ConnParseErr(i) \/ ConnRecvEof(i) \/ ConnRequest(i)
          \/ ConnDialFail(i) \/ ConnDialOk(i)
          \/ ConnSpliceEnd(i) \/ ConnSpliceIoErr(i)

SpecListener == InitListener /\ [][NextListener]_vars

\* C27: an accept failure is logged and the accept loop goes on: the loop
\* does not end and the process does not terminate, so the listener is at
\* its accept (or at the handshake of a connection it accepted) forever.
ListenerSurvivesAccept ==
    listener.at \in {"accept", "handshake"} /\ listener.ret = ""

\* C28: a step in which one connection fails (parse error, dial failure,
\* inbound TLS handshake error or timeout, I/O error in the splice) ends
\* that connection and changes no other connection; the accept loop has
\* not returned: it is where it was, and back at its accept when the
\* failure was that of the handshake it was waiting for.
ConnectionIsolation ==
    [][\A i \in 1..Len(conns) :
          (conns[i].st \notin {"done", "aborted"} /\ conns'[i].st = "done"
           /\ conns'[i].why # "") =>
             ( /\ Len(conns') = Len(conns)
               /\ \A j \in 1..Len(conns) : j # i => conns'[j] = conns[j]
               /\ listener.ret = ""
               /\ listener' = IF conns[i].st = "handshake"
                               THEN Accepting(listener.fn) ELSE listener )]_vars

\* the first connection failed while the second was in its splice, which
\* it still is, and a third connection was accepted
ConnectionIsolationWitness ==
    /\ Len(conns) = 3 /\ listener.at = "accept"
    /\ conns[1].st = "done" /\ conns[1].ret = "Err" /\ conns[1].why = "parse error"
    /\ conns[2].st = "splice"
    /\ conns[3].st = "recv"

(***************************************************************************)
(* The client role with an upstream certificate, under the scheduling the  *)
(* code's timers give: a read that nothing else ends is ended by its read  *)
(* timeout, a dial by the 120 s of timeout_connect, and the steps in       *)
(* between are the task's own.                                             *)
(* Connection::proxy awaits tls::connect as it is, without a timer, and    *)
(* connect_two_way awaits the two peers, so their steps are left to        *)
(* the peers.                                                              *)
(***************************************************************************)
UpstreamInputs ==
    { V4Req(1), V4Req(2), V5ReqDomain \o Payload, V5Greeting \o V5ReqIp(1),
      HttpReq(<<>>) \o Payload, <<>>, <<255>>, <<4, 1>> }

InitUpstream ==
    /\ role = "client"
    /\ tls = TRUE
    /\ sent \in UpstreamInputs /\ cin = sent
    /\ cClose \in BOOLEAN
    /\ rin = RemoteBytes /\ rClose \in BOOLEAN
    /\ authorized = FALSE
    /\ InitConn
    /\ NoProcess

\* the steps that the task takes by itself or that a timer of the code ends
Timed ==
    \/ RecvTimeout
    \/ RunAuth \/ RunReq \/ RunNone \/ RunErr
    \/ ProcessRequest \/ DialFail
    \/ ReplySuccess \/ ReplyFailure
    \/ ProxyWrite \/ Return

\* RecvParse is the task's own step too.  It is enabled exactly while pc is
\* "parse" and leaves "parse", so its weak fairness is that pc is not
\* "parse" for ever.
ParseFair == []<>(pc # "parse")

SpecUpstream == InitUpstream /\ [][Next]_vars /\ WF_vars(Timed) /\ ParseFair

\* C29: in client role with a cert_path, a TLS handshake with the remote
\* proxy that never completes is abandoned by its 10 s timeout: whenever the
\* connection is at the handshake in proxy(), it later is past it.
UpstreamHandshakeBounded ==
    (pc = "proxy" /\ tls) ~> (pc # "proxy")

\* C30: in every Request the parser produces exactly one of dst_addr and
\* dst_domain is populated: dst_addr exactly when a_type is Ipv4 or Ipv6,
\* holding an address of that family, and dst_domain exactly when a_type is
\* Domain.
RequestPopulation ==
    (pc # "parse" /\ parsed.err = NoErr /\ parsed.kind = "Req") =>
        /\ parsed.req.dst_addr.some # parsed.req.dst_domain.some
        /\ parsed.req.a_type \in {"Ipv4", "Ipv6", "Domain"}
        /\ parsed.req.a_type = "Ipv4" <=>
              (parsed.req.dst_addr.some /\ parsed.req.dst_addr.fam = "V4")
        /\ parsed.req.a_type = "Ipv6" <=>
              (parsed.req.dst_addr.some /\ parsed.req.dst_addr.fam = "V6")
        /\ parsed.req.a_type = "Domain" <=> parsed.req.dst_domain.some

\* a SOCKS5 request with a domain name was parsed
RequestPopulationWitness ==
    /\ pc # "parse" /\ parsed.err = NoErr /\ parsed.kind = "Req"
    /\ parsed.req.ver = "V5" /\ parsed.req.a_type = "Domain"
    /\ parsed.req.dst_domain.some /\ Len(parsed.req.dst_domain.v) > 0
    /\ ~parsed.req.dst_addr.some

(***************************************************************************)
(* Properties of the handshake parser, second part (SpecParser).           *)
(***************************************************************************)
\* C31: a frame that starts with 'C' is accepted only when its request
\* line is the three tokens "CONNECT", a host or host:port that parses, and
\* "HTTP/1.1"; every other request line fails with BadRequest (a '\r' that
\* no '\n' follows is a broken line).
HttpRequestLineValidated ==
    (pc # "parse" /\ buffer # <<>> /\ buffer[1] = 67 /\ parsed.err # Incomplete) =>
        LET line == SubSeq(buffer, 1, Len(read_until([src |-> buffer, pos |-> 0], 13)) - 1)
            parts == split(line, 32)
            good == /\ Len(parts) = 3
                    /\ parts[1] = <<67, 79, 78, 78, 69, 67, 84>>
                    /\ Url_parse(parts[2]).ok
                    /\ parts[3] = <<72, 84, 84, 80, 47, 49, 46, 49>>
        IN  /\ parsed.err = NoErr => good
            /\ ~good => parsed.err \in { Other("Bad Request"), Other("Bad Request Url"),
                                         Other("Bad Request Host"), Other("broken line") }

\* the bytes read from the client socket so far
ClientRead == Take(sent, Len(sent) - Len(cin))

\* C32: recv_and_parse_req returns "no frame" only when the client closed
\* without having sent a byte of a frame: what it sent is nothing, or in
\* client role the whole auth frame before a request that never began.  The
\* task then ends without error, reply or dial.  A client that closed after
\* a strict prefix of a frame gets the ConnectionReset error instead.
EofDuringHandshake ==
    /\ (pc \in {"frame", "done"} /\ frame.err = NoErr /\ frame.kind = "None") =>
          /\ cin = <<>> /\ cClose
          /\ \/ ClientRead = <<>>
             \/ /\ role = "client"
                /\ parse_req(ClientRead, FALSE).kind = "Auth"
                /\ parse_req(ClientRead, FALSE).consumed = Len(ClientRead)
          /\ pc = "done" =>
                /\ result = "Ok" /\ failure = NoErr /\ remote = ""
                /\ \A i \in 1..Len(replies) : replies[i].kind = "auth"
    /\ (pc = "frame" /\ cin = <<>> /\ cClose /\ buffer # <<>>
        /\ parse_req(buffer, authorized).err = Incomplete) =>
          frame.err \in {IoErr("ConnectionReset"), ReadTimeout}

\* C33: a read of the handshake does not wait for ever: it ends, and when
\* the client has no byte left to send the task ends too; with the client
\* silent and not closed the read ends in the read-timeout error (or the
\* socket's own error).  A dial does not wait for ever either, and it ends
\* connected, in an I/O error or in the connect-timeout error.
TimeoutsBound ==
    /\ (pc = "read") ~> (pc # "read")
    /\ (pc = "read" /\ cin = <<>>) ~> (pc = "done")
    /\ (pc = "dial") ~> (pc # "dial")
    /\ [][(pc = "read" /\ cin = <<>> /\ ~cClose /\ pc' # "read") =>
             (pc' = "frame" /\ frame'.err \in {ReadTimeout, IoErr("ConnectionReset")})]_vars
    /\ [][(pc = "dial" /\ pc' # "dial") =>
             \/ pc' # "failed" /\ remote' = target.to /\ failure' = failure
             \/ /\ pc' = "failed" /\ remote' = remote
                /\ failure'.kind = "IoErr" \/ failure' = Other("connection timout")]_vars

\* the client went silent in the middle of a frame and the task ended with
\* the read-timeout error
TimeoutsBoundWitness ==
    /\ pc = "done" /\ result = "Err" /\ failure = Other("read from connection timeout")
    /\ buffer # <<>> /\ cin = <<>> /\ ~cClose

\* C34: after 0x04 the parser reads cmd (1 Connect, 2 Bind, 3 Udp, any
\* other byte fails with UnknownCmd), the port as a big-endian u16, the
\* IPv4 address as a big-endian u32 and the USERID up to and including its
\* first NUL, which it ignores.  The Request has dialect V4, a_type Ipv4 and
\* no domain, and its raw is the frame: 04 01 22 C3 C0 A8 01 01 00 is
\* Connect to 192.168.1.1:8899 with those nine bytes as raw.
Socks4Parsing ==
    (pc # "parse" /\ Len(buffer) >= 2 /\ buffer[1] = 4) =>
        LET nuls == {i \in 9..Len(buffer) : buffer[i] = 0}
            end == CHOOSE i \in nuls : \A j \in nuls : i <= j
        IN  IF buffer[2] \notin {1, 2, 3} THEN parsed.err = UnknownCmd(4)
            ELSE IF nuls = {} THEN parsed.err = Incomplete
            ELSE /\ parsed.err = NoErr /\ parsed.kind = "Req"
                 /\ parsed.consumed = end
                 /\ parsed.req.ver = "V4"
                 /\ parsed.req.cmd = << "Connect", "Bind", "Udp" >>[buffer[2]]
                 /\ parsed.req.dst_port = buffer[3] * 256 + buffer[4]
                 /\ parsed.req.a_type = "Ipv4"
                 /\ parsed.req.dst_addr =
                       [some |-> TRUE, fam |-> "V4",
                        v |-> << buffer[5] * 256 + buffer[6], buffer[7] * 256 + buffer[8] >>]
                 /\ ~parsed.req.dst_domain.some
                 /\ parsed.req.raw = SubSeq(buffer, 1, end)
                 /\ SubSeq(buffer, 1, 9) = <<4, 1, 34, 195, 192, 168, 1, 1, 0>> =>
                       /\ parsed.req.cmd = "Connect" /\ parsed.req.dst_port = 8899
                       /\ parsed.req.dst_addr.v = <<49320, 257>>
                       /\ parsed.req.raw = <<4, 1, 34, 195, 192, 168, 1, 1, 0>>

\* the frame 04 01 22 C3 C0 A8 01 01 00 was parsed
Socks4ParsingWitness ==
    /\ pc # "parse" /\ parsed.err = NoErr /\ parsed.kind = "Req"
    /\ buffer = <<4, 1, 34, 195, 192, 168, 1, 1, 0>>
    /\ parsed.req.dst_port = 8899 /\ parsed.req.raw = buffer

\* C35: after 0x05, cmd and rsv, a_type 1 reads four bytes as the IPv4
\* destination, a_type 3 reads a length byte L and then exactly L bytes as
\* the domain, and every a_type outside {1, 3, 4} fails with
\* AddrTypeUnsupported; the two bytes after the address are the port in
\* big-endian order.
Socks5Parsing ==
    (pc # "parse" /\ authorized /\ Len(buffer) >= 4 /\ buffer[1] = 5
     /\ buffer[2] \in {1, 2, 3}) =>
        LET L == buffer[5]
        IN  CASE buffer[4] = 1 ->
                   IF Len(buffer) < 10 THEN parsed.err = Incomplete
                   ELSE /\ parsed.err = NoErr /\ parsed.kind = "Req"
                        /\ parsed.req.ver = "V5" /\ parsed.req.a_type = "Ipv4"
                        /\ parsed.req.dst_addr =
                              [some |-> TRUE, fam |-> "V4",
                               v |-> << buffer[5] * 256 + buffer[6],
                                        buffer[7] * 256 + buffer[8] >>]
                        /\ parsed.req.dst_port = buffer[9] * 256 + buffer[10]
                        /\ parsed.consumed = 10
              [] buffer[4] = 3 ->
                   IF Len(buffer) < 5 \/ Len(buffer) < L + 5 THEN parsed.err = Incomplete
                   ELSE IF \E i \in 6..(L + 5) : buffer[i] >= 128
                   THEN parsed.err \notin {NoErr, Incomplete}
                   ELSE IF Len(buffer) < L + 7 THEN parsed.err = Incomplete
                   ELSE /\ parsed.err = NoErr /\ parsed.kind = "Req"
                        /\ parsed.req.ver = "V5" /\ parsed.req.a_type = "Domain"
                        /\ parsed.req.dst_domain = [some |-> TRUE, v |-> SubSeq(buffer, 6, L + 5)]
                        /\ parsed.req.dst_port = buffer[L + 6] * 256 + buffer[L + 7]
                        /\ parsed.consumed = L + 7
              [] buffer[4] = 4 -> TRUE
              [] OTHER -> parsed.err = Error("AddrTypeUnsupported", 5, "")

\* a request for the domain a.cc and port 8899 was parsed, a byte after it
Socks5ParsingWitness ==
    /\ pc # "parse" /\ authorized
    /\ parsed.err = NoErr /\ parsed.kind = "Req"
    /\ Take(buffer, 12) = <<5, 1, 0, 3, 4, 97, 46, 99, 99, 34, 195, 201>>
    /\ parsed.req.dst_domain.v = <<97, 46, 99, 99>> /\ parsed.req.dst_port = 8899

\* C36: the host token of a CONNECT line is read as the authority of an
\* http URL.  A dotted IPv4 literal gives a_type Ipv4 with that address, a
\* bracketed literal gives Ipv6, any other host gives Domain with the name;
\* the port is the one written after the host, and 80 when there is none.
\* "CONNECT nexel.cc:443 HTTP/1.1" gives Domain nexel.cc, port 443.
HttpDestination ==
    (pc # "parse" /\ parsed.err = NoErr /\ parsed.kind = "Req" /\ parsed.req.ver = "Http") =>
        LET line == SubSeq(buffer, 1, Len(read_until([src |-> buffer, pos |-> 0], 13)) - 1)
            tok == split(line, 32)[2]
            bracketed == tok[1] = 91
            close == CHOOSE i \in 1..Len(tok) : tok[i] = 93
            colons == {i \in 1..Len(tok) : tok[i] = 58 /\ (bracketed => i > close)}
            colon == CHOOSE i \in colons : \A j \in colons : i <= j
            host == IF colons = {} THEN tok ELSE SubSeq(tok, 1, colon - 1)
            labels == split(host, 46)
            quad == Len(labels) = 4 /\ \A i \in 1..4 : IsDigits(labels[i])
        IN  /\ parsed.req.dst_port =
                  IF colons = {} THEN 80 ELSE DecVal(SubSeq(tok, colon + 1, Len(tok)))
            /\ IF bracketed
               THEN /\ parsed.req.a_type = "Ipv6"
                    /\ parsed.req.dst_addr.some /\ parsed.req.dst_addr.fam = "V6"
               ELSE IF quad
               THEN /\ parsed.req.a_type = "Ipv4"
                    /\ parsed.req.dst_addr =
                          [some |-> TRUE, fam |-> "V4",
                           v |-> << DecVal(labels[1]) * 256 + DecVal(labels[2]),
                                    DecVal(labels[3]) * 256 + DecVal(labels[4]) >>]
               ELSE /\ parsed.req.a_type = "Domain"
                    /\ parsed.req.dst_domain = [some |-> TRUE, v |-> to_lowercase(host)]
            /\ tok = <<110, 101, 120, 101, 108, 46, 99, 99, 58, 52, 52, 51>> =>
                  /\ parsed.req.a_type = "Domain" /\ parsed.req.dst_port = 443
                  /\ parsed.req.dst_domain.v = <<110, 101, 120, 101, 108, 46, 99, 99>>

\* "CONNECT nexel.cc:443 HTTP/1.1" with a header line was parsed
HttpDestinationWitness ==
    /\ pc # "parse" /\ parsed.err = NoErr /\ parsed.kind = "Req" /\ parsed.req.ver = "Http"
    /\ Take(buffer, 20) = <<67, 79, 78, 78, 69, 67, 84, 32, 110, 101, 120, 101, 108, 46, 99, 99, 58, 52, 52, 51>>
    /\ parsed.req.dst_port = 443 /\ parsed.req.a_type = "Domain"
    /\ Len(buffer) > 40

(***************************************************************************)
(* protocol.rs BufReader::get_until and get_line on their own: one call    *)
(* on a cursor at any position of a short slice.                           *)
(***************************************************************************)
\* the longest slice the cursor walks
MaxSlice == 3

\* '\0', '\n', '\r', 'a'
SliceBytes == {0, 10, 13, 97}

Slices == UNION { [1..n -> SliceBytes] : n \in 0..MaxSlice }

\* a BufReader whose cursor has gone over the first pos bytes of src
reader_at(src, pos) ==
    [src |-> src, pos |-> pos, w |-> BufWrite(NewBufWriter, SubSeq(src, 1, pos))]

NoCall(r, c) == [fn |-> "", r |-> r, c |-> c, out |-> Got(<<>>, r)]

InitReader ==
    /\ \E src \in Slices, c \in {0, 13} :
          \E pos \in 0..Len(src) : call = NoCall(reader_at(src, pos), c)
    /\ rule_yaml = <<>> /\ store = <<>> /\ loaded = "" /\ query = <<>>
    /\ listener = "" /\ conns = <<>>
    /\ role = "client" /\ tls = FALSE /\ sent = <<>> /\ cin = <<>>
    /\ cClose = FALSE /\ rin = <<>> /\ rClose = FALSE /\ authorized = FALSE
    /\ InitConn

readerOnly ==
    UNCHANGED << role, tls, sent, cClose, rClose, cin, rin, authorized, buffer, parsed,
                 frame, pc, reads, looked, connVars,
                 rule_yaml, store, loaded, query, listener, conns >>

\* buf_reader.get_until(src, c)
CallGetUntil ==
    /\ call.fn = ""
    /\ call' = [call EXCEPT !.fn = "get_until", !.out = get_until(call.r, call.c)]
    /\ readerOnly

\* buf_reader.get_line(src)
CallGetLine ==
    /\ call.fn = "" /\ call.c = 13
    /\ call' = [call EXCEPT !.fn = "get_line", !.out = get_line(call.r)]
    /\ readerOnly

NextReader == CallGetUntil \/ CallGetLine

SpecReader == InitReader /\ [][NextReader]_vars

\* C37: get_until(c) returns the unread bytes up to and including the first
\* c when the unread bytes hold one; when they hold none, be they empty or
\* not, it fails with Incomplete, returns no byte and leaves the cursor and
\* the recorded bytes as they were.
ReadUntilDelimiter ==
    call.fn = "get_until" =>
        LET unread == SubSeq(call.r.src, call.r.pos + 1, Len(call.r.src))
            hits == {i \in 1..Len(unread) : unread[i] = call.c}
            first == CHOOSE i \in hits : \A j \in hits : i <= j
        IN  IF hits # {}
            THEN /\ call.out.err = NoErr
                 /\ call.out.val = SubSeq(unread, 1, first)
                 /\ call.out.r.pos = call.r.pos + first
            ELSE /\ call.out.err = Incomplete
                 /\ call.out.val = <<>>
                 /\ call.out.r = call.r

\* C38: no byte read from the client socket is lost.  While the handshake
\* is received, the bytes read are the auth frame already answered (client
\* role, SOCKS5) and the buffer being parsed; in the splice they are the
\* auth frame, the request frame and the bytes the splice has taken to
\* forward to the remote.
ClientBytesKept ==
    LET auth == IF role = "client" /\ authorized /\ sent # <<>> /\ sent[1] = 5
                THEN Take(sent, 2 + sent[2]) ELSE <<>>
    IN  /\ pc \in {"parse", "read", "frame"} => ClientRead = auth \o buffer
        /\ pc = "splice" => ClientRead = auth \o req.raw \o rd["ab"]

\* C39: replay round trip.  The raw of a Request parsed in client role,
\* parsed again as run_on_server does (authorized), gives a Request with
\* the same dialect, cmd, a_type, address, domain, port and raw; a SOCKS5
\* raw is the request frame alone, without the auth frame.
ReplayRoundTrip ==
    (pc # "parse" /\ role = "client" /\ parsed.err = NoErr /\ parsed.kind = "Req") =>
        /\ parse_req(parsed.req.raw, TRUE).err = NoErr
        /\ parse_req(parsed.req.raw, TRUE).kind = "Req"
        /\ parse_req(parsed.req.raw, TRUE).req = parsed.req
        /\ parse_req(parsed.req.raw, TRUE).consumed = Len(parsed.req.raw)
        /\ parsed.req.ver = "V5" => parsed.req.raw[2] \in {1, 2, 3}

\* the replies that answer a request: the success reply and the error replies
RequestReplies == RepliesOf("success") \cup RepliesOf("error")

\* C40: over a connection the client is written at most one request-level
\* reply, success or failure, and at most one Request is processed: once
\* process has its Request, the Request stays the same and no frame is
\* received or parsed any more.
OneRequestReply ==
    /\ [](Cardinality(RequestReplies) <= 1)
    /\ [][(req # NoRequest) =>
             (/\ req' = req
              /\ pc' # "parse" /\ pc' # "read" /\ pc' # "frame"
              /\ parsed' = parsed /\ frame' = frame /\ buffer' = buffer)]_vars

\* a SOCKS5 connection that was answered the method, then the success reply,
\* and has run to its end
OneRequestReplyWitness ==
    /\ pc = "done" /\ result = "Ok"
    /\ RepliesOf("auth") # {}
    /\ RepliesOf("success") # {}
    /\ req # NoRequest

====
